---------------------------- MODULE Spec2Model ----------------------------
(***************************************************************************)
(* A model of quadtree_img: the quadtree builder (mount), the bit codec    *)
(* (encode_v1 / decode_v1), the QTI container (to_qti / from_qti), the     *)
(* palettes, the renderer (to_image) and the quantizer (generate_palette,  *)
(* quantize_to_palette, from_image).                                       *)
(*                                                                         *)
(* A QuadtreeNode is the record [color, sections]; sections is << >> for   *)
(* None and a 4-tuple of nodes for Some(Box<[QuadtreeNode; 4]>).  A        *)
(* Result is a record whose field res is "Ok", the name of the error       *)
(* variant, or "Panic" where the Rust code aborts (an index out of range,  *)
(* a failed assert!).                                                      *)
(***************************************************************************)
EXTENDS Integers, Sequences, FiniteSets, TLC

VARIABLES
    pc,        \* the operation performed last ("start" before any)
    palette,   \* the palette handed to the operations: [kind, n, colors]
    image,     \* the grid of palette indices handed to mount (row-major)
    sens,      \* mount's sensitivity argument
    gradient,  \* the gradient flag handed to mount / to_image
    node,      \* the QuadtreeNode the operations act on
    res,       \* the result of the last operation
    bits,      \* the bit buffer encode_v1 writes and decode_v1 reads
    decoded,   \* the node decode_v1 / from_qti fills
    ind,       \* the bit index decode_v1 returns
    bytes,     \* the QTI file to_qti writes and from_qti reads
    palette2,  \* the palette from_qti returns
    canvas,    \* the image buffer to_image draws into: [width, height, pixels]
    drawGradient,  \* the gradient flag handed to to_image
    start_ind, \* the bit index handed to decode_v1 by its caller
    rank,      \* generate_palette's ranking: [col, total, cat] per cluster
    hdr,       \* to_qti's length arithmetic at a large width:
               \* [w, sixteenths, build, res, stored, byte]
    depth,     \* trim's depth argument
    before     \* the tree held by node when trim was called

vars == <<pc, palette, image, sens, gradient, node, res, bits, decoded, ind,
          bytes, palette2, canvas, drawGradient, start_ind, rank, hdr,
          depth, before>>

---------------------------------------------------------------------------
(* Bounds of the model.                                                    *)

\* Grids have side 2^k for k in 0..MaxK.
MaxK == 2
\* Palette widths range over 1..MaxWidth.
MaxWidth == 4

\* The full scale of the sensitivity argument.
FullSensitivity == 16384
\* The divisor of the per-colour gradient threshold.
GradientDivisor == 65536

---------------------------------------------------------------------------
(* Arithmetic helpers.                                                     *)

Pow2(n) == 2 ^ n

Max(a, b) == IF a >= b THEN a ELSE b

Min(a, b) == IF a <= b THEN a ELSE b

\* usize::is_power_of_two
is_power_of_two(n) == \E e \in 0..30 : n = Pow2(e)

\* usize::trailing_zeros of a non-zero number
trailing_zeros(n) == CHOOSE e \in 0..30 : n % Pow2(e) = 0 /\ (n \div Pow2(e)) % 2 = 1

---------------------------------------------------------------------------
(* Quadtree nodes.                                                         *)

\* QuadtreeNode::default(): colour 0, no sections.
DefaultNode == [color |-> 0, sections |-> << >>]

Leaf(c) == [color |-> c, sections |-> << >>]

IsLeaf(n) == n.sections = << >>

RECURSIVE LeafCount(_)
LeafCount(n) ==
    IF IsLeaf(n) THEN 1
    ELSE LeafCount(n.sections[1]) + LeafCount(n.sections[2])
         + LeafCount(n.sections[3]) + LeafCount(n.sections[4])

RECURSIVE NodeCount(_)
NodeCount(n) ==
    IF IsLeaf(n) THEN 1
    ELSE 1 + NodeCount(n.sections[1]) + NodeCount(n.sections[2])
           + NodeCount(n.sections[3]) + NodeCount(n.sections[4])

\* The lengths of the shortest and the longest root-to-leaf path.
RECURSIVE MinDepth(_)
MinDepth(n) ==
    IF IsLeaf(n) THEN 0
    ELSE 1 + Min(Min(MinDepth(n.sections[1]), MinDepth(n.sections[2])),
                 Min(MinDepth(n.sections[3]), MinDepth(n.sections[4])))

RECURSIVE MaxDepth(_)
MaxDepth(n) ==
    IF IsLeaf(n) THEN 0
    ELSE 1 + Max(Max(MaxDepth(n.sections[1]), MaxDepth(n.sections[2])),
                 Max(MaxDepth(n.sections[3]), MaxDepth(n.sections[4])))

---------------------------------------------------------------------------
(* Palettes.  kind is "generic" (GenericPaletteN: an array of exactly 2^n  *)
(* colours), "view" (PaletteViewN: a boxed slice of any length, width n)   *)
(* or "dynamic" (DynamicPaletteView: width derived from the length).       *)

TransparentBlack == <<0, 0, 0, 0>>

\* floor(log2(len)): 31 - leading_zeros of a non-zero u32.
FloorLog2(len) == CHOOSE e \in 0..30 : Pow2(e) <= len /\ len < Pow2(e + 1)

width(p) == IF p.kind = "dynamic" THEN FloorLog2(Len(p.colors)) ELSE p.n

\* to_rgba: [ok, color].  GenericPaletteN refuses an index outside its
\* array; PaletteViewN refuses an index above 1 << n and reads transparent
\* black beyond its slice; DynamicPaletteView never refuses.
to_rgba(p, c) ==
    LET got == IF c < Len(p.colors) THEN p.colors[c + 1] ELSE TransparentBlack
    IN  CASE p.kind = "generic" -> [ok |-> c < Len(p.colors), color |-> got]
          [] p.kind = "view"    -> [ok |-> ~(c > Pow2(p.n)), color |-> got]
          [] OTHER              -> [ok |-> TRUE, color |-> got]

\* get_slice: [some, slice].  A PaletteViewN shorter than 1 << n has no
\* slice to give.
get_slice(p) ==
    CASE p.kind = "generic" -> [some |-> TRUE, slice |-> p.colors]
      [] p.kind = "view"    ->
            IF Len(p.colors) >= Pow2(p.n)
            THEN [some |-> TRUE, slice |-> SubSeq(p.colors, 1, Pow2(p.n))]
            ELSE [some |-> FALSE, slice |-> << >>]
      [] OTHER              ->
            [some |-> TRUE, slice |-> SubSeq(p.colors, 1, Pow2(width(p)))]

\* DynamicPaletteView::from(Vec<Color>)
DynamicPaletteView(colors) == [kind |-> "dynamic", n |-> 0, colors |-> colors]

\* Vec::resize(len, value)
resize(v, len, value) ==
    [i \in 1..len |-> IF i <= Len(v) THEN v[i] ELSE value]

---------------------------------------------------------------------------
(* mount.                                                                  *)

\* The indices (1-based) of the cells of the size-by-size window at pos.
RegionCells(row_len, pos, size) ==
    { row * row_len + col + 1 :
        row \in pos[2]..(pos[2] + size - 1), col \in pos[1]..(pos[1] + size - 1) }

\* abundance_map: colour -> number of cells of the window holding it.
abundance_map(img, cells) ==
    [c \in { img[i] : i \in cells } |-> Cardinality({ i \in cells : img[i] = c })]

\* Mutant of AbundanceBefore: equal counts are ordered by the higher colour.
AbundanceBefore_HigherColor(m, c, d) == m[c] > m[d] \/ (m[c] = m[d] /\ c >= d)

\* The order of the sorted (-count, colour) pairs: higher count first, then
\* the lower colour.
AbundanceBefore(m, c, d) == m[c] > m[d] \/ (m[c] = m[d] /\ c <= d)

\* The first n entries of the sorted vector.  mount reads entry 0 and, for
\* abundance_four, the first four entries only.
RECURSIVE SortEntries(_, _, _)
SortEntries(m, keys, n) ==
    IF keys = {} \/ n = 0 THEN << >>
    ELSE LET c == CHOOSE c \in keys : \A d \in keys : AbundanceBefore(m, c, d)
         IN  <<[count |-> m[c], color |-> c]>> \o SortEntries(m, keys \ {c}, n - 1)

abundance_sort(img, cells) ==
    LET m == abundance_map(img, cells) IN SortEntries(m, DOMAIN m, 4)

\* The colour check of mount: the colour is refused when it exceeds 1 << width.
MountColorOutOfRange(color, w) == color > Pow2(w)

\* Mutants of NeedsSplit: the size guard admits side 1; the comparison
\* admits equality.
NeedsSplit_AtSideOne(size, count, sensitivity) ==
    size >= 1 /\ count <= (sensitivity * size * size) \div FullSensitivity

NeedsSplit_OrEqual(size, count, sensitivity) ==
    size > 1 /\ count <= (sensitivity * size * size) \div FullSensitivity

\* The recursion condition: the most abundant colour covers too little.
NeedsSplit(size, count, sensitivity) ==
    size > 1 /\ count < (sensitivity * size * size) \div FullSensitivity

\* The four most abundant entries, padded with zero-count entries.
abundance_four(sorted) ==
    SubSeq(sorted \o [i \in 1..4 |-> [count |-> 0, color |-> 0]], 1, 4)

\* Mutant of GradientSum: every one of the four counts is added.
GradientSum_NoFloor(sorted, size, sensitivity) ==
    LET four == abundance_four(sorted)
    IN  four[1].count + four[2].count + four[3].count + four[4].count

GradientSum(sorted, size, sensitivity) ==
    LET four == abundance_four(sorted)
        part(i) == IF four[i].count > (sensitivity * size * size) \div GradientDivisor
                   THEN four[i].count ELSE 0
    IN  part(1) + part(2) + part(3) + part(4)

\* Mutant of GradientLeafMode: a sum equal to the threshold is enough.
GradientLeafMode_OrEqual(grad, size, sorted, sensitivity) ==
    /\ grad
    /\ size > 2
    /\ GradientSum(sorted, size, sensitivity)
         >= (sensitivity * size * size) \div FullSensitivity

\* Mutant of GradientLeafMode: the sum is compared the other way round.
GradientLeafMode_Below(grad, size, sorted, sensitivity) ==
    /\ grad
    /\ size > 2
    /\ GradientSum(sorted, size, sensitivity)
         < (sensitivity * size * size) \div FullSensitivity

GradientLeafMode(grad, size, sorted, sensitivity) ==
    /\ grad
    /\ size > 2
    /\ GradientSum(sorted, size, sensitivity)
         > (sensitivity * size * size) \div FullSensitivity

\* Mutant of GradientWindow: y_off is taken from sect_ind >> 1.
GradientWindow_ShiftedBit(row_len, pos, size, sect_ind) ==
    LET off == size \div 4
        x_off == ((sect_ind % 2) * 6 * off) \div 2
        y_off == ((sect_ind \div 2) * 3 * off) \div 2
    IN  RegionCells(row_len, <<pos[1] + x_off, pos[2] + y_off>>, off)

\* The window sampled for child sect_ind (0..3) in gradient-leaf mode.
GradientWindow(row_len, pos, size, sect_ind) ==
    LET off == size \div 4
        x_off == ((sect_ind % 2) * 6 * off) \div 2
        y_off == ((2 * (sect_ind \div 2)) * 3 * off) \div 2
    IN  RegionCells(row_len, <<pos[1] + x_off, pos[2] + y_off>>, off)

\* Mutant of QuadrantPos: the two bits of sect_ind are swapped.
QuadrantPos_Swapped(pos, size, sect_ind) ==
    <<pos[1] + (sect_ind \div 2) * (size \div 2),
      pos[2] + (sect_ind % 2) * (size \div 2)>>

\* The origin of quadrant sect_ind (0..3) of the window at pos.
QuadrantPos(pos, size, sect_ind) ==
    <<pos[1] + (sect_ind % 2) * (size \div 2),
      pos[2] + (sect_ind \div 2) * (size \div 2)>>

\* One call of mount with size and start_pos given, on the node self.
RECURSIVE MountAt(_, _, _, _, _, _, _)
MountAt(self, img, w, size, pos, sensitivity, grad) ==
    LET row_len == Len(img) \div Pow2(trailing_zeros(Len(img)) \div 2)
        cells == RegionCells(row_len, pos, size)
    IN
    IF cells = {} \/ \E i \in cells : i > Len(img)
    THEN [res |-> "Panic", node |-> self]
    ELSE
    LET sorted == abundance_sort(img, cells)
        abundance_res == sorted[1]
        colored == [self EXCEPT !.color = abundance_res.color]
    IN
    IF MountColorOutOfRange(abundance_res.color, w)
    THEN [res |-> "ColorOutOfRange", node |-> colored]
    ELSE IF ~NeedsSplit(size, abundance_res.count, sensitivity)
    THEN [res |-> "Ok", node |-> colored]
    ELSE IF GradientLeafMode(grad, size, sorted, sensitivity)
    THEN [res |-> "Ok",
          node |-> [colored EXCEPT !.sections =
              [i \in 1..4 |->
                  Leaf(abundance_sort(img,
                          GradientWindow(row_len, pos, size, i - 1))[1].color)]]]
    ELSE
    LET sub == [i \in 1..4 |->
                   MountAt(DefaultNode, img, w, size \div 2,
                           QuadrantPos(pos, size, i - 1), sensitivity, grad)]
        failed == { i \in 1..4 : sub[i].res # "Ok" }
        first == IF failed = {} THEN 5
                 ELSE CHOOSE i \in failed : \A j \in failed : i <= j
    IN  [res |-> IF failed = {} THEN "Ok" ELSE sub[first].res,
         node |-> [colored EXCEPT !.sections =
              [i \in 1..4 |-> IF i <= first THEN sub[i].node ELSE DefaultNode]]]

\* mount as outside callers call it: size and start_pos are None.
mount(self, img, p, sensitivity, grad) ==
    IF ~is_power_of_two(Len(img)) \/ trailing_zeros(Len(img)) % 2 = 1
    THEN [res |-> "InvalidSize", node |-> self]
    ELSE MountAt(self, img, width(p),
                 Len(img) \div Pow2(trailing_zeros(Len(img)) \div 2),
                 <<0, 0>>, sensitivity, grad)


---------------------------------------------------------------------------
(* encode_v1 and decode_v1.  A bit buffer is a sequence of 0 and 1; bit    *)
(* index i of the Rust BitVec is element i + 1.                            *)

\* The colour check of encode_v1.
EncodeColorOutOfRange(color, w) == color >= Pow2(w)

\* Mutant of ColorBits: the colour number is written least significant bit
\* first.
ColorBits_LsbFirst(color, w) ==
    [i \in 1..w |-> (color \div Pow2(i - 1)) % 2]

\* The w bits of the colour number, most significant first: bit bit_ind is
\* color & (1 << (w - bit_ind - 1)).
ColorBits(color, w) ==
    [i \in 1..w |-> (color \div Pow2(w - i)) % 2]

RECURSIVE EncodeInto(_, _, _)
RECURSIVE EncodeSections(_, _, _, _)

\* The sections are encoded in order; the first error ends the encoding.
EncodeSections(sects, i, buffer, w) ==
    IF i > 4 THEN [res |-> "Ok", buffer |-> buffer]
    ELSE LET r == EncodeInto(sects[i], buffer, w)
         IN  IF r.res # "Ok" THEN r ELSE EncodeSections(sects, i + 1, r.buffer, w)

\* encode_v1 on node n, appending to buffer.
EncodeInto(n, buffer, w) ==
    IF EncodeColorOutOfRange(n.color, w)
    THEN [res |-> "ColorOutOfRange", buffer |-> buffer]
    ELSE LET flagged == Append(buffer, IF IsLeaf(n) THEN 0 ELSE 1)
             written == flagged \o ColorBits(n.color, w)
         IN  IF IsLeaf(n) THEN [res |-> "Ok", buffer |-> written]
             ELSE EncodeSections(n.sections, 1, written, w)

encode_v1(n, buffer, p) == EncodeInto(n, buffer, width(p))

\* Mutant of ReadColor: the colour bits are read from the flag bit on.
ReadColor_FromFlag(buffer, curr_ind, w) ==
    LET bit(bit_ind) == buffer[curr_ind + bit_ind + 1] * Pow2(w - bit_ind - 1)
        RECURSIVE sum(_)
        sum(k) == IF k = 0 THEN 0 ELSE bit(k - 1) + sum(k - 1)
    IN  sum(w)

\* The colour number read by decode_v1: bit bit_ind of the node is the buffer
\* bit at index curr_ind + bit_ind + 1, of weight 1 << (w - bit_ind - 1).
ReadColor(buffer, curr_ind, w) ==
    LET bit(bit_ind) == buffer[curr_ind + bit_ind + 2] * Pow2(w - bit_ind - 1)
        RECURSIVE sum(_)
        sum(k) == IF k = 0 THEN 0 ELSE bit(k - 1) + sum(k - 1)
    IN  sum(w)

\* The data quantity check of decode_v1.
DecodeInsufficient(len, curr_ind, w) == len - curr_ind < w

RECURSIVE DecodeAt(_, _, _, _)
RECURSIVE DecodeSections(_, _, _, _, _)

\* The sections are decoded in order, each from the index the one before
\* returned; the first error ends the decoding.
DecodeSections(sects, i, buffer, w, curr_ind) ==
    IF i > 4 THEN [res |-> "Ok", sections |-> sects, ind |-> curr_ind]
    ELSE LET r == DecodeAt(sects[i], buffer, w, curr_ind)
             next == [sects EXCEPT ![i] = r.node]
         IN  IF r.res # "Ok" THEN [res |-> r.res, sections |-> next, ind |-> r.ind]
             ELSE DecodeSections(next, i + 1, buffer, w, r.ind)

\* decode_v1 on the node self, from bit index curr_ind.  The subtraction
\* buffer.len() - curr_ind overflows when curr_ind is beyond the buffer, and
\* a bit index at or beyond the length aborts the read.
DecodeAt(self, buffer, w, curr_ind) ==
    IF curr_ind > Len(buffer)
    THEN [res |-> "Panic", node |-> self, ind |-> curr_ind]
    ELSE IF DecodeInsufficient(Len(buffer), curr_ind, w)
    THEN [res |-> "InsufficientData", node |-> self, ind |-> curr_ind]
    ELSE IF curr_ind + w >= Len(buffer)
    THEN [res |-> "Panic", node |-> self, ind |-> curr_ind]
    ELSE
    LET colored == [self EXCEPT !.color = ReadColor(buffer, curr_ind, w)]
        should_recurse == buffer[curr_ind + 1] = 1
        after == curr_ind + 1 + w
    IN  IF ~should_recurse
        THEN [res |-> "Ok", node |-> colored, ind |-> after]
        ELSE LET r == DecodeSections([i \in 1..4 |-> DefaultNode], 1, buffer, w, after)
             IN  [res |-> r.res,
                  node |-> [colored EXCEPT !.sections = r.sections],
                  ind |-> r.ind]

decode_v1(self, buffer, p, curr_ind) == DecodeAt(self, buffer, width(p), curr_ind)

---------------------------------------------------------------------------
(* to_qti and from_qti.  A file is a sequence of bytes 0..255; byte index  *)
(* i of the Rust slice is element i + 1.  The widths of the model stay far *)
(* below 28, so no product of to_qti reaches 2^32.                         *)

\* b"QuTrIm"
Magic == <<81, 117, 84, 114, 73, 109>>

\* The version byte to_qti writes.
Version1 == 1

\* BitVec<Msb0, u8>::as_slice: eight bits per byte, the first bit the most
\* significant; the bits past the end in the last byte are zero.
BytesOfBits(b) ==
    LET bit(i) == IF i <= Len(b) THEN b[i] ELSE 0
    IN  [k \in 1..((Len(b) + 7) \div 8) |->
            128 * bit(8 * k - 7) + 64 * bit(8 * k - 6) + 32 * bit(8 * k - 5)
            + 16 * bit(8 * k - 4) + 8 * bit(8 * k - 3) + 4 * bit(8 * k - 2)
            + 2 * bit(8 * k - 1) + bit(8 * k)]

\* BitVec<Msb0, u8>::from(&[u8])
BitsOfBytes(bs) ==
    [i \in 1..(8 * Len(bs)) |->
        (bs[(i + 7) \div 8] \div Pow2(7 - ((i - 1) % 8))) % 2]

\* The number of trailing transparent-black entries of a vector.
RECURSIVE TrailingTransparent(_)
TrailingTransparent(v) ==
    IF v = << >> \/ v[Len(v)] # TransparentBlack THEN 0
    ELSE 1 + TrailingTransparent(SubSeq(v, 1, Len(v) - 1))

\* Mutant of palette_vec: the fallback lists all 1 << width entries.
palette_vec_AllEntries(p) ==
    LET s == get_slice(p)
        listed == IF s.some THEN s.slice
                  ELSE [i \in 1..Pow2(width(p)) |-> to_rgba(p, i - 1).color]
    IN  resize(listed, Pow2(width(p)), TransparentBlack)

\* palette_vec of to_qti: the slice of the palette, or else the colours of
\* the indices 0..(width << 1), resized to 1 << width entries.
palette_vec(p) ==
    LET s == get_slice(p)
        listed == IF s.some THEN s.slice
                  ELSE [i \in 1..(width(p) * 2) |-> to_rgba(p, i - 1).color]
    IN  resize(listed, Pow2(width(p)), TransparentBlack)

\* palette_len of to_qti: the entries up to the last one that is not
\* transparent black, and at least nine sixteenths of the palette.
palette_len(p) ==
    Max(Pow2(width(p)) - TrailingTransparent(palette_vec(p)),
        (9 * Pow2(width(p)) + 15) \div 16)

\* approx_len of to_qti: ceil(palette_len * 16 / 2^width) * 2^width / 16.
approx_len(p) ==
    LET w == width(p)
        chunks == (palette_len(p) * 16 + Pow2(w) - 1) \div Pow2(w)
    IN  (chunks * Pow2(w)) \div 16

\* The length indicator byte: ((approx_len * 16 / 2^width - 9) << 5) as u8,
\* or'ed with width - 1.
LengthIndicator(p) ==
    (((((approx_len(p) * 16) \div Pow2(width(p))) - 9) * 32) % 256) + (width(p) - 1)

RECURSIVE Flatten(_)
Flatten(seqs) ==
    IF seqs = << >> THEN << >> ELSE Head(seqs) \o Flatten(Tail(seqs))

\* to_qti: [res, bytes].
to_qti(n, p) ==
    LET w == width(p)
        fallback_ok == get_slice(p).some
                       \/ \A i \in 0..(w * 2 - 1) : to_rgba(p, i).ok
        stored == approx_len(p)
        header == Magic \o <<Version1>>
        enc == encode_v1(n, << >>, p)
    IN  IF ~fallback_ok \/ (stored * 16) \div Pow2(w) < 9
           \/ \E c \in 0..(stored - 1) : ~to_rgba(p, c).ok
        THEN [res |-> "Panic", bytes |-> << >>]
        ELSE IF enc.res # "Ok"
        THEN [res |-> enc.res, bytes |-> << >>]
        ELSE [res |-> "Ok",
              bytes |-> header \o <<LengthIndicator(p)>>
                        \o Flatten([c \in 1..stored |-> to_rgba(p, c - 1).color])
                        \o BytesOfBits(enc.buffer)]

\* The fields of header byte 7.
pal_size(b7) == (b7 % 32) + 1

PalChunks(b7) == (b7 \div 32) + 9

\* u32::count_ones
RECURSIVE count_ones(_)
count_ones(x) == IF x = 0 THEN 0 ELSE (x % 2) + count_ones(x \div 2)

\* pal_len of from_qti: (chunks * 2^(pal_size - 4)) as u32, the fraction cut
\* off.  Defined for pal_size <= 30, where the value is below 2^31.
pal_len(b7) ==
    IF pal_size(b7) < 4 THEN (PalChunks(b7) * Pow2(pal_size(b7))) \div 16
    ELSE PalChunks(b7) * Pow2(pal_size(b7) - 4)

\* pal_len.count_ones(): 16 * 2^28 saturates to u32::MAX, 32 ones; a value
\* chunks * 2^k below 2^32 has the ones of chunks.
PalLenOnes(b7) ==
    IF pal_size(b7) = 32 /\ PalChunks(b7) = 16 THEN 32
    ELSE IF pal_size(b7) <= 30 THEN count_ones(pal_len(b7))
    ELSE count_ones(PalChunks(b7))

\* The failure of from_qti for version 2: what decode_v2 returns.
decode_v2 == "InsufficientData"

\* from_qti: [res, node, palette].  The slices and indexings abort when they
\* reach beyond the source: source[..6], source[7], the palette entries.
from_qti(source) ==
    LET failed(r) == [res |-> r, node |-> DefaultNode, palette |-> DynamicPaletteView(<< >>)]
    IN
    IF Len(source) < 6 THEN failed("Panic")
    ELSE IF SubSeq(source, 1, 6) # Magic THEN failed("MissingHeader")
    ELSE IF Len(source) < 8 THEN failed("Panic")
    ELSE
    LET b7 == source[8] IN
    IF PalLenOnes(b7) > 4 THEN failed("Panic")
    ELSE IF pal_size(b7) > 30 \/ pal_len(b7) > (Len(source) - 8) \div 4 THEN failed("Panic")
    ELSE
    LET len == pal_len(b7)
        pal == [n \in 1..len |-> SubSeq(source, 4 * n + 5, 4 * n + 8)]
        pal2 == DynamicPaletteView(resize(pal, Pow2(pal_size(b7)), TransparentBlack))
        tree_bits == BitsOfBytes(SubSeq(source, 9 + 4 * len, Len(source)))
    IN  IF source[7] = 1
        THEN LET r == decode_v1(DefaultNode, tree_bits, pal2, 0)
             IN  IF r.res = "Ok" THEN [res |-> "Ok", node |-> r.node, palette |-> pal2]
                 ELSE failed(r.res)
        ELSE IF source[7] = 2 THEN failed(decode_v2)
        ELSE failed("MissingHeader")

---------------------------------------------------------------------------
(* to_image.  An image buffer is [width, height, pixels]; pixel (x, y) is  *)
(* element y * width + x + 1 of pixels.                                    *)

\* image::RgbaImage::new(width, height): every pixel transparent black.
NewCanvas(w, h) ==
    [width |-> w, height |-> h, pixels |-> [i \in 1..(w * h) |-> TransparentBlack]]

PixelAt(cv, x, y) == cv.pixels[y * cv.width + x + 1]

\* imageops::replace with a size-by-size square of one colour at pos; the
\* part outside the buffer is dropped.
FillSquare(cv, pos, size, c) ==
    [cv EXCEPT !.pixels =
        [i \in 1..(cv.width * cv.height) |->
            LET x == (i - 1) % cv.width
                y == (i - 1) \div cv.width
            IN  IF /\ pos[1] <= x /\ x < pos[1] + size
                   /\ pos[2] <= y /\ y < pos[2] + size
                THEN c ELSE cv.pixels[i]]]

\* Mutant of LerpChannel: the value is rounded to the nearest integer.
LerpChannel_Rounded(a, b, k, size) == (2 * (a * size + (b - a) * k) + size) \div (2 * size)

\* One channel of color_lerp at n = k / size: ((b - a) * n + a) as u8.  The
\* value lies between a and b, so the cast cuts the fraction off.
LerpChannel(a, b, k, size) == (a * size + (b - a) * k) \div size

\* color_lerp(a, b, k / size)
color_lerp(a, b, k, size) == [ch \in 1..4 |-> LerpChannel(a[ch], b[ch], k, size)]

\* The bilinear gradient of the four section colours over the region.
GradientFill(cv, pos, size, sc) ==
    [cv EXCEPT !.pixels =
        [i \in 1..(cv.width * cv.height) |->
            LET col == (i - 1) % cv.width
                row == (i - 1) \div cv.width
            IN  IF /\ pos[1] <= col /\ col < pos[1] + size
                   /\ pos[2] <= row /\ row < pos[2] + size
                THEN color_lerp(color_lerp(sc[1], sc[2], col - pos[1], size),
                                color_lerp(sc[3], sc[4], col - pos[1], size),
                                row - pos[2], size)
                ELSE cv.pixels[i]]]

\* Mutant of DrawPositions: the second and third position are exchanged.
DrawPositions_Transposed(pos, size) ==
    << <<pos[1], pos[2]>>,
       <<pos[1], pos[2] + size \div 2>>,
       <<pos[1] + size \div 2, pos[2]>>,
       <<pos[1] + size \div 2, pos[2] + size \div 2>> >>

\* positions of to_image: the origins of the four sections.
DrawPositions(pos, size) ==
    << <<pos[1], pos[2]>>,
       <<pos[1] + size \div 2, pos[2]>>,
       <<pos[1], pos[2] + size \div 2>>,
       <<pos[1] + size \div 2, pos[2] + size \div 2>> >>

RECURSIVE DrawAt(_, _, _, _, _, _)
RECURSIVE DrawSections(_, _, _, _, _, _, _)

\* The sections are drawn in order; the first error ends the drawing.
DrawSections(sects, i, cv, p, size, pos, grad) ==
    IF i > 4 THEN [res |-> "Ok", canvas |-> cv]
    ELSE LET r == DrawAt(sects[i], cv, p, size \div 2, DrawPositions(pos, size)[i], grad)
         IN  IF r.res # "Ok" THEN r
             ELSE DrawSections(sects, i + 1, r.canvas, p, size, pos, grad)

\* One call of to_image with size and start_pos given.
DrawAt(n, cv, p, curr_size, curr_pos, grad) ==
    IF cv.width # cv.height THEN [res |-> "NonSquare", canvas |-> cv]
    ELSE IF ~is_power_of_two(cv.width) \/ ~is_power_of_two(curr_size)
    THEN [res |-> "NonPowerOfTwo", canvas |-> cv]
    ELSE IF ~to_rgba(p, n.color).ok THEN [res |-> "ColorOutOfRange", canvas |-> cv]
    ELSE
    LET drawn == FillSquare(cv, curr_pos, curr_size, to_rgba(p, n.color).color)
    IN  IF ~(curr_size > 1) \/ IsLeaf(n) THEN [res |-> "Ok", canvas |-> drawn]
        ELSE IF grad /\ \A i \in 1..4 : IsLeaf(n.sections[i])
        THEN IF \E i \in 1..4 : ~to_rgba(p, n.sections[i].color).ok
             THEN [res |-> "ColorOutOfRange", canvas |-> drawn]
             ELSE [res |-> "Ok",
                   canvas |-> GradientFill(drawn, curr_pos, curr_size,
                       [i \in 1..4 |-> to_rgba(p, n.sections[i].color).color])]
        ELSE DrawSections(n.sections, 1, drawn, p, curr_size, curr_pos, grad)

\* to_image as outside callers call it: size and start_pos are None.
to_image(n, cv, p, grad) ==
    IF cv.width # cv.height THEN [res |-> "NonSquare", canvas |-> cv]
    ELSE IF ~is_power_of_two(cv.width) THEN [res |-> "NonPowerOfTwo", canvas |-> cv]
    ELSE DrawAt(n, cv, p, cv.width, <<0, 0>>, grad)

\* The values of the variables no operation has written yet.
NoFile ==
    /\ bytes = << >>
    /\ palette2 = DynamicPaletteView(<< >>)
    /\ canvas = NewCanvas(0, 0)
    /\ drawGradient = FALSE

\* No length arithmetic in progress.
NoHeader ==
    [w |-> 0, sixteenths |-> 0, build |-> "none", res |-> "None", stored |-> 0, byte |-> 0]

---------------------------------------------------------------------------
(* Inputs of the builder.                                                  *)

\* Colour number i of the palettes the model builds: opaque, distinct.
PaletteColor(i) == <<i + 1, (7 * i) % 256, 0, 255>>

GenericPalette(w) ==
    [kind |-> "generic", n |-> w, colors |-> [i \in 1..Pow2(w) |-> PaletteColor(i - 1)]]

\* The sensitivities tried: SensSteps + 1 evenly spaced values of
\* 0..16384, and the value just below full sensitivity.
SensSteps == 4

SensSet ==
    { (FullSensitivity * i) \div SensSteps : i \in 0..SensSteps } \cup {FullSensitivity - 1}

\* A grid pattern: cell (x, y) of a grid of the given side holds
\* (a*x + b*y + q*quadrant + c) % m, and the cell number d (1-based,
\* 0: none) holds the next value instead.
PatternCell(p, side, x, y) ==
    LET quad == 2 * ((2 * y) \div side) + ((2 * x) \div side)
        v == (p.a * x + p.b * y + p.q * quad + p.c) % p.m
    IN  IF p.d = y * side + x + 1 THEN (v + 1) % Max(p.m, 2) ELSE v

Patterns(side) ==
    [a : {0, 1}, b : {0, 1, side}, q : {0, 1}, c : {0, 1},
     m : {1, 2, 3, side * side + 1}, d : {0, 1, side, side * side}]

Grid(p, side) ==
    [i \in 1..(side * side) |-> PatternCell(p, side, (i - 1) % side, (i - 1) \div side)]

Grids == UNION { { Grid(p, Pow2(k)) : p \in Patterns(Pow2(k)) } : k \in 0..MaxK }

\* Buffers whose length is not a power of four.
BadGrids == { <<0, 1>>, <<0, 0, 0>>, <<1, 1, 0, 0, 1, 1, 0, 0>> }

\* The side of a grid of valid length, and its base-2 logarithm.
Side(img) == Pow2(trailing_zeros(Len(img)) \div 2)

SideLog(img) == trailing_zeros(Len(img)) \div 2

ValidSize(img) == is_power_of_two(Len(img)) /\ trailing_zeros(Len(img)) % 2 = 0

\* Every cell is an index the palette addresses.
ValidGrid(img, w) == \A i \in 1..Len(img) : img[i] < Pow2(w)

Uniform(img, cells) == \A i, j \in cells : img[i] = img[j]

---------------------------------------------------------------------------
(* The builder's state machine: mount is called on a fresh node with a     *)
(* grid, a palette, a sensitivity and a gradient flag.                     *)

InitMount ==
    /\ pc = "start"
    /\ image \in Grids \cup BadGrids
    /\ \E w \in {1, MaxWidth} : palette = GenericPalette(w)
    /\ sens = 0
    /\ gradient = FALSE
    /\ node = DefaultNode
    /\ res = "None"
    /\ bits = << >>
    /\ decoded = DefaultNode
    /\ ind = 0
    /\ start_ind = 0
    /\ rank = << >>
    /\ hdr = NoHeader
    /\ depth = 0
    /\ before = DefaultNode
    /\ NoFile

DoMount(s, g) ==
    /\ pc = "start"
    /\ LET r == mount(node, image, palette, s, g)
       IN  /\ node' = r.node
           /\ res' = r.res
    /\ sens' = s
    /\ gradient' = g
    /\ pc' = "mount"
    /\ UNCHANGED <<depth, before, hdr, start_ind, rank, bytes, palette2, canvas, drawGradient, palette, image, bits, decoded, ind>>

NextMount == \E s \in SensSet, g \in BOOLEAN : DoMount(s, g)

SpecMount == InitMount /\ [][NextMount]_vars

---------------------------------------------------------------------------
(* Properties of the builder.                                              *)

\* The cells of the whole grid.
AllCells(img) == 1..Len(img)

\* mount has run on a grid of side 2^k.
Mounted == pc = "mount" /\ ValidSize(image)

\* C3 as stated: every root-to-leaf path of the tree mount builds on a fresh
\* node for a grid of side 2^k has length exactly k.
C3_DepthExactlyK ==
    (Mounted /\ res = "Ok") =>
        (MinDepth(node) = SideLog(image) /\ MaxDepth(node) = SideLog(image))

\* C3 (amended): every root-to-leaf path of the tree mount builds on a fresh
\* node for a grid of side 2^k has length at most k, whatever the
\* sensitivity and the gradient flag; the build never aborts on an empty or
\* out-of-grid window.
C3_DepthAtMostK ==
    Mounted => (res # "Panic" /\ MaxDepth(node) <= SideLog(image))

\* C3 witness: a 4x4 grid built into a tree with a leaf at depth 1 and a
\* leaf at depth 2.
C3_Witness ==
    /\ Mounted /\ res = "Ok" /\ Len(image) = 16
    /\ MinDepth(node) = 1 /\ MaxDepth(node) = 2

\* C4: a grid of side 2^k whose cells all hold the same valid index c is
\* built, for every sensitivity and either gradient flag, into Ok and a root
\* without children whose colour is c.
C4_UniformSingleLeaf ==
    (Mounted /\ Uniform(image, AllCells(image)) /\ image[1] < Pow2(width(palette)))
        => (res = "Ok" /\ node = Leaf(image[1]))

\* C4 witness: a uniform 4x4 grid of colour 1 mounted at full sensitivity
\* with the gradient flag set.
C4_Witness ==
    /\ Mounted /\ Len(image) = 16 /\ Uniform(image, AllCells(image))
    /\ image[1] = 1 /\ sens = FullSensitivity /\ gradient
    /\ node = Leaf(1)

\* C5: for a fixed grid and gradient flag, the tree built with a lower
\* sensitivity never has more leaves than the tree built with a higher one.
C5_SensitivityMonotone ==
    (Mounted /\ res = "Ok") =>
        \A s1 \in SensSet :
            s1 <= sens =>
                LET r1 == mount(DefaultNode, image, palette, s1, gradient)
                IN  r1.res = "Ok" => LeafCount(r1.node) <= LeafCount(node)

\* C5 witness: a 4x4 grid, with the gradient flag set, that has more leaves
\* at the sensitivity used than at a lower one, the lower one giving four
\* leaves under a split root.
C5_Witness ==
    /\ Mounted /\ res = "Ok" /\ gradient /\ Len(image) = 16
    /\ \E s1 \in SensSet :
          /\ s1 < sens
          /\ LeafCount(mount(DefaultNode, image, palette, s1, gradient).node) = 4
          /\ LeafCount(node) > 4

\* The region of child i (1..4) of the region at pos: top-left, top-right,
\* bottom-left, bottom-right.
ChildRegionPos(pos, size, i) ==
    <<pos[1] + (IF i \in {2, 4} THEN size \div 2 ELSE 0),
      pos[2] + (IF i \in {3, 4} THEN size \div 2 ELSE 0)>>

\* Every node of n, the tree of the region at pos, is a leaf exactly when the
\* region has side 1 or holds a single index.
RECURSIVE FullySubdivided(_, _, _, _)
FullySubdivided(n, img, pos, size) ==
    /\ IsLeaf(n) <=> (size = 1 \/ Uniform(img, RegionCells(Side(img), pos, size)))
    /\ ~IsLeaf(n) =>
          \A i \in 1..4 :
              FullySubdivided(n.sections[i], img, ChildRegionPos(pos, size, i), size \div 2)

PairwiseDistinct(img) == \A i, j \in 1..Len(img) : i # j => img[i] # img[j]

\* C6: at sensitivity 16384 without gradient, a node is a leaf iff its region
\* has side 1 or all its cells hold the same index; a 4x4 grid of 16
\* pairwise distinct indices gives 16 leaves, each one pixel.
C6_FullSubdivision ==
    (Mounted /\ res = "Ok" /\ sens = FullSensitivity /\ ~gradient) =>
        /\ FullySubdivided(node, image, <<0, 0>>, Side(image))
        /\ (Len(image) = 16 /\ PairwiseDistinct(image)) =>
              (LeafCount(node) = 16 /\ MinDepth(node) = 2 /\ MaxDepth(node) = 2)

\* C6 witness: the 4x4 grid of 16 distinct indices built into 16 leaves.
C6_Witness ==
    /\ Mounted /\ res = "Ok" /\ sens = FullSensitivity /\ ~gradient
    /\ Len(image) = 16 /\ PairwiseDistinct(image)
    /\ LeafCount(node) = 16

---------------------------------------------------------------------------
(* Inputs of the codec: trees of at most MaxBranches branch nodes, their   *)
(* colours drawn from a seed.                                              *)

MaxBranches == 3

MaxSeed == 5

\* The trees that differ from t by one leaf turned into a branch of four
\* default leaves.
RECURSIVE ExpandAll(_)
ExpandAll(t) ==
    IF IsLeaf(t) THEN { [t EXCEPT !.sections = [i \in 1..4 |-> DefaultNode]] }
    ELSE UNION { { [t EXCEPT !.sections[i] = u] : u \in ExpandAll(t.sections[i]) }
                 : i \in 1..4 }

RECURSIVE Shapes(_)
Shapes(b) ==
    IF b = 0 THEN {DefaultNode}
    ELSE LET less == Shapes(b - 1)
         IN  less \cup UNION { ExpandAll(t) : t \in less }

\* The shape t with colours: the node of seed s gets s % modulus, and its
\* child i the seed (3*s + i) % 31.
RECURSIVE Paint(_, _, _)
Paint(t, seed, modulus) ==
    [color |-> seed % modulus,
     sections |-> IF IsLeaf(t) THEN << >>
                  ELSE [i \in 1..4 |-> Paint(t.sections[i], (3 * seed + i) % 31, modulus)]]

\* Trees for a palette of width w: every colour below 2^w (extra = 0), or
\* below 2^w + 1 (extra = 1), which admits the first colour out of range.
Trees(w) ==
    { Paint(t, seed, Pow2(w) + extra) :
        t \in Shapes(MaxBranches), seed \in 0..MaxSeed, extra \in {0, 1} }

RECURSIVE AllColorsBelow(_, _)
AllColorsBelow(n, bound) ==
    /\ n.color < bound
    /\ IsLeaf(n) \/ \A i \in 1..4 : AllColorsBelow(n.sections[i], bound)

---------------------------------------------------------------------------
(* The codec's state machine: a tree is encoded into an empty buffer, and  *)
(* the buffer is decoded from bit 0 into a fresh node.                     *)

InitCodec ==
    /\ pc = "start"
    /\ \E w \in 1..MaxWidth :
          /\ palette = GenericPalette(w)
          /\ node \in Trees(w)
    /\ image = << >>
    /\ sens = 0
    /\ gradient = FALSE
    /\ res = "None"
    /\ bits = << >>
    /\ decoded = DefaultNode
    /\ ind = 0
    /\ start_ind = 0
    /\ rank = << >>
    /\ hdr = NoHeader
    /\ depth = 0
    /\ before = DefaultNode
    /\ NoFile

DoEncode ==
    /\ pc = "start"
    /\ LET r == encode_v1(node, << >>, palette)
       IN  /\ bits' = r.buffer
           /\ res' = r.res
    /\ pc' = "encode"
    /\ UNCHANGED <<depth, before, hdr, start_ind, rank, bytes, palette2, canvas, drawGradient, palette, image, sens, gradient, node, decoded, ind>>

DoDecode ==
    /\ pc = "encode"
    /\ res = "Ok"
    /\ LET r == decode_v1(DefaultNode, bits, palette, 0)
       IN  /\ decoded' = r.node
           /\ res' = r.res
           /\ ind' = r.ind
    /\ pc' = "decode"
    /\ UNCHANGED <<depth, before, hdr, start_ind, rank, bytes, palette2, canvas, drawGradient, palette, image, sens, gradient, node, bits>>

NextCodec == DoEncode \/ DoDecode

SpecCodec == InitCodec /\ [][NextCodec]_vars

\* C1: for every tree whose colours are all below 2^W, encode_v1 succeeds and
\* writes (W+1) bits per node, and decode_v1 from bit 0 on a fresh node
\* rebuilds exactly that tree and returns the number of bits written.
C1_CodecRoundTrip ==
    LET w == width(palette)
    IN  /\ (pc = "encode" /\ AllColorsBelow(node, Pow2(w))) =>
              (res = "Ok" /\ Len(bits) = (w + 1) * NodeCount(node))
        /\ pc = "decode" =>
              /\ res = "Ok"
              /\ decoded = node
              /\ ind = (w + 1) * NodeCount(node)
              /\ ind = Len(bits)

\* C1 witness: a tree of three branch nodes and depth 3, with a colour other
\* than 0, decoded back from its bits.
C1_Witness ==
    /\ pc = "decode" /\ res = "Ok" /\ decoded = node
    /\ NodeCount(node) = 13 /\ MaxDepth(node) = 3
    /\ width(palette) = 3 /\ \E i \in 1..4 : node.sections[i].color > 3

---------------------------------------------------------------------------
(* Inputs of the container: grids and palettes of every variant.           *)

PipePatterns(side) ==
    [a : {0, 1}, b : {0, side}, q : {0}, c : {0, 6}, m : {2, side * side + 7}, d : {0}]

PipeGrids == UNION { { Grid(p, Pow2(k)) : p \in PipePatterns(Pow2(k)) } : k \in 0..MaxK }

\* len colours of which the first n are opaque and the others transparent
\* black.
PaletteColors(len, n) ==
    [i \in 1..len |-> IF i <= n THEN PaletteColor(i - 1) ELSE TransparentBlack]

\* For width w: the array full, with its last entry transparent, and with
\* its upper half transparent; the fixed-width view over one colour fewer
\* than 2^w, over 2^w and over one more; the dynamic view over 2^w colours
\* and over one more.
PipePalettes(w) ==
    LET full == Pow2(w)
    IN  { [kind |-> "generic", n |-> w, colors |-> PaletteColors(full, k)] :
            k \in {full, full - 1, full \div 2} }
        \cup { [kind |-> "view", n |-> w, colors |-> PaletteColors(len, len)] :
            len \in {full - 1, full, full + 1} }
        \cup { DynamicPaletteView(PaletteColors(len, len)) : len \in {full, full + 1} }

\* The sensitivities tried before a file is written.
PipeSens == { FullSensitivity, FullSensitivity \div 2 }

---------------------------------------------------------------------------
(* The container's state machine: a grid is built into a tree, the tree    *)
(* and the palette are written to a file, the file is read back, and the   *)
(* tree read is drawn into a buffer of the grid's side.                    *)

InitQti ==
    /\ pc = "start"
    /\ image \in PipeGrids
    /\ \E w \in 1..MaxWidth : palette \in PipePalettes(w)
    /\ sens = 0
    /\ gradient = FALSE
    /\ node = DefaultNode
    /\ res = "None"
    /\ bits = << >>
    /\ decoded = DefaultNode
    /\ ind = 0
    /\ start_ind = 0
    /\ rank = << >>
    /\ hdr = NoHeader
    /\ depth = 0
    /\ before = DefaultNode
    /\ NoFile

DoToQti ==
    /\ pc = "mount"
    /\ res = "Ok"
    /\ LET r == to_qti(node, palette)
       IN  /\ bytes' = r.bytes
           /\ res' = r.res
    /\ pc' = "to_qti"
    /\ UNCHANGED <<depth, before, hdr, start_ind, rank, palette, image, sens, gradient, node, bits, decoded, ind,
                   palette2, canvas, drawGradient>>

DoFromQti ==
    /\ pc \in {"to_qti", "file"}
    /\ pc = "to_qti" => res = "Ok"
    /\ LET r == from_qti(bytes)
       IN  /\ decoded' = r.node
           /\ palette2' = r.palette
           /\ res' = r.res
    /\ pc' = "from_qti"
    /\ UNCHANGED <<depth, before, hdr, start_ind, rank, palette, image, sens, gradient, node, bits, ind,
                   bytes, canvas, drawGradient>>

DoToImage(g) ==
    /\ pc = "from_qti"
    /\ res = "Ok"
    /\ LET r == to_image(decoded, NewCanvas(Side(image), Side(image)), palette2, g)
       IN  /\ canvas' = r.canvas
           /\ res' = r.res
    /\ drawGradient' = g
    /\ pc' = "to_image"
    /\ UNCHANGED <<depth, before, hdr, start_ind, rank, palette, image, sens, gradient, node, bits, decoded, ind,
                   bytes, palette2>>

NextQti ==
    \/ \E s \in PipeSens, g \in BOOLEAN : DoMount(s, g)
    \/ DoToQti
    \/ DoFromQti
    \/ \E g \in BOOLEAN : DoToImage(g)

SpecQti == InitQti /\ [][NextQti]_vars

---------------------------------------------------------------------------
(* Properties of the container.                                            *)

\* The grid was built at full sensitivity without gradient leaves, from a
\* grid of power-of-two side whose every cell is below 2^W.
LosslessBuild ==
    /\ sens = FullSensitivity
    /\ ~gradient
    /\ ValidSize(image)
    /\ ValidGrid(image, width(palette))

\* Every pixel of the drawn buffer is the palette colour of the grid's cell.
PixelsMatch ==
    \A x \in 0..(Side(image) - 1), y \in 0..(Side(image) - 1) :
        PixelAt(canvas, x, y) = to_rgba(palette, image[y * Side(image) + x + 1]).color

\* C2: from a grid of side 2^k whose cells are all below 2^W, building at
\* sensitivity 16384 without gradient, writing the file, reading it back and
\* drawing without gradient all succeed, and pixel (x, y) of the buffer is
\* the palette's colour for cell (x, y) of the grid.
C2_ContainerRoundTrip ==
    LosslessBuild =>
        /\ pc \in {"mount", "to_qti", "from_qti"} => res = "Ok"
        /\ (pc = "to_image" /\ ~drawGradient) => (res = "Ok" /\ PixelsMatch)

\* Number of palette entries up to the last one that is not transparent
\* black, among the 2^W colours the palette answers for.
MeaningfulCount(p) ==
    LET used == { i \in 1..Pow2(width(p)) : to_rgba(p, i - 1).color # TransparentBlack }
    IN  IF used = {} THEN 0 ELSE CHOOSE i \in used : \A j \in used : j <= i

\* Number of palette entries held by the file written from node and palette:
\* what is left of the file after the eight header bytes and the tree's
\* bytes, four bytes an entry.
StoredEntries ==
    (Len(bytes) - 8 - ((NodeCount(node) * (width(palette) + 1) + 7) \div 8)) \div 4

\* C7: a written file stores at least the meaningful entries of the palette
\* and at most 2^W entries; from W = 4 on the number stored is a multiple of
\* 2^W / 16, between nine and sixteen of those chunks.
C7_StoredEntries ==
    (pc = "to_qti" /\ res = "Ok") =>
        LET w == width(palette)
            chunk == Pow2(w) \div 16
        IN  /\ MeaningfulCount(palette) <= StoredEntries
            /\ StoredEntries <= Pow2(w)
            /\ w >= 4 => /\ StoredEntries % chunk = 0
                         /\ StoredEntries \div chunk \in 9..16

---------------------------------------------------------------------------
(* Reading a file that no to_qti wrote: from_qti on arbitrary bytes.       *)

MaxPayload == 10

\* Byte 6 of the files read.
FileVersions == {0, 1, 2, 3}

\* Byte 7 of the files read: every value of the byte.
HeaderBytes == 0..255

\* What follows the header: len bytes, each of them fill.  Read as tree
\* bits, 0 is leaves of colour 0, 255 is split nodes without end, and 128
\* is a split node first.
Payload(len, fill) == [i \in 1..len |-> fill]

Payloads == { Payload(len, fill) : len \in 0..MaxPayload, fill \in {0, 128, 255} }

\* Six bytes that are not the magic: the first or the last byte differs.
BadMagics == { [Magic EXCEPT ![1] = 113], [Magic EXCEPT ![6] = 77] }

\* The first n bytes of b.
Truncate(b, n) == SubSeq(b, 1, Min(n, Len(b)))

\* Files with the magic, any version, any header byte and any payload; the
\* same files for other magics, version 1 and two header bytes; and every
\* file cut short of its eight header bytes.
Files ==
    { Magic \o <<v, h>> \o pay : v \in FileVersions, h \in HeaderBytes, pay \in Payloads }
    \cup { bad \o <<1, h>> \o pay : bad \in BadMagics, h \in {0, 255}, pay \in Payloads }
    \cup { Truncate(m \o <<v, 0>>, n) :
            m \in {Magic} \cup BadMagics, v \in FileVersions, n \in 0..7 }

InitFile ==
    /\ pc = "file"
    /\ bytes \in Files
    /\ image = << >>
    /\ palette = DynamicPaletteView(<< >>)
    /\ sens = 0
    /\ gradient = FALSE
    /\ node = DefaultNode
    /\ res = "None"
    /\ bits = << >>
    /\ decoded = DefaultNode
    /\ ind = 0
    /\ start_ind = 0
    /\ rank = << >>
    /\ hdr = NoHeader
    /\ depth = 0
    /\ before = DefaultNode
    /\ palette2 = DynamicPaletteView(<< >>)
    /\ canvas = NewCanvas(0, 0)
    /\ drawGradient = FALSE

NextFile == DoFromQti

SpecFile == InitFile /\ [][NextFile]_vars

\* The buffer begins with the six bytes of the magic.
HasMagic(b) == Len(b) >= 6 /\ SubSeq(b, 1, 6) = Magic

\* from_qti has returned, or has aborted.
Read == pc = "from_qti"

\* from_qti returned no tree and no palette.
NothingReturned == decoded = DefaultNode /\ palette2 = DynamicPaletteView(<< >>)

\* The failures from_qti can return: the values of DecodeError.
DecodeErrors == {"InsufficientData", "MissingHeader", "PaletteTooLarge"}

\* C8: a buffer of any length, shorter than six bytes included, whose first
\* six bytes are not the magic, is refused with MissingHeader: from_qti
\* neither aborts nor returns a tree or a palette.
C8_BadMagicIsMissingHeader ==
    (Read /\ ~HasMagic(bytes)) => (res = "MissingHeader" /\ NothingReturned)

\* C9: a buffer that starts with the magic and whose byte 6 is not 1 is
\* refused with MissingHeader whatever follows byte 6, present or not: no
\* tree, no other error, no abort.
C9_VersionIsMissingHeader ==
    (Read /\ HasMagic(bytes) /\ Len(bytes) >= 7 /\ bytes[7] # 1) =>
        (res = "MissingHeader" /\ NothingReturned)

\* C10: for a buffer with the magic, version 1 and any header byte 7,
\* from_qti returns Ok or one of the decode errors: the count of stored
\* entries never trips the assertion on its set bits, and a count beyond the
\* palette bytes present is an error, not a read past the end of the buffer.
C10_HeaderNeverAborts ==
    (Read /\ HasMagic(bytes) /\ Len(bytes) >= 8 /\ bytes[7] = 1) =>
        res \in {"Ok"} \cup DecodeErrors

---------------------------------------------------------------------------
(* decode_v1 on bit buffers that no encode_v1 wrote.                       *)

MaxBits == 8
MaxStart == 2

\* Every bit buffer of at most MaxBits bits.
BitBuffers == UNION { [1..n -> {0, 1}] : n \in 0..MaxBits }

InitDecode ==
    /\ pc = "bits"
    /\ bits \in BitBuffers
    /\ \E w \in 1..MaxWidth : palette = GenericPalette(w)
    /\ start_ind \in 0..MaxStart
    /\ rank = << >>
    /\ hdr = NoHeader
    /\ depth = 0
    /\ before = DefaultNode
    /\ image = << >>
    /\ sens = 0
    /\ gradient = FALSE
    /\ node = DefaultNode
    /\ res = "None"
    /\ decoded = DefaultNode
    /\ ind = 0
    /\ NoFile

\* decode_v1 called on a fresh node by an outside caller, from start_ind.
DoDecodeFrom ==
    /\ pc = "bits"
    /\ LET r == decode_v1(DefaultNode, bits, palette, start_ind)
       IN  /\ decoded' = r.node
           /\ res' = r.res
           /\ ind' = r.ind
    /\ pc' = "decode_from"
    /\ UNCHANGED <<depth, before, hdr, start_ind, rank, palette, image, sens, gradient, node, bits,
                   bytes, palette2, canvas, drawGradient>>

NextDecode == DoDecodeFrom

SpecDecode == InitDecode /\ [][NextDecode]_vars

\* The outcome a walk of the buffer must have: at each node in pre-order,
\* InsufficientData unless the node's W + 1 bits lie within the buffer,
\* then the four children if the node's flag bit is 1.  [res, ind].
RECURSIVE ExpectedDecode(_, _, _, _)
ExpectedDecode(buffer, w, at, pending) ==
    IF pending = 0 THEN [res |-> "Ok", ind |-> at]
    ELSE IF Len(buffer) - at < w + 1 THEN [res |-> "InsufficientData", ind |-> at]
    ELSE ExpectedDecode(buffer, w, at + w + 1,
                        pending - 1 + (IF buffer[at + 1] = 1 THEN 4 ELSE 0))

\* C11: whatever the buffer, the width and the start index, decode_v1 reads
\* no bit at or beyond the buffer's length, and it returns InsufficientData
\* exactly when some node it comes to has fewer than W + 1 bits left.
C11_TruncatedIsInsufficientData ==
    pc = "decode_from" =>
        /\ res # "Panic"
        /\ res = ExpectedDecode(bits, width(palette), start_ind, 1).res

---------------------------------------------------------------------------
(* The colours of a built tree.                                            *)

\* C12: when mount returns Ok, every node of the tree, branch or leaf, the
\* children made by gradient-leaf mode included, has a colour below 2^W, so
\* that encode_v1 with the same palette succeeds on the tree.
C12_BuiltColorsValid ==
    (pc = "mount" /\ res = "Ok") =>
        /\ AllColorsBelow(node, Pow2(width(palette)))
        /\ encode_v1(node, << >>, palette).res = "Ok"

---------------------------------------------------------------------------
(* Quantization: quantize_to_palette, generate_palette and from_image.    *)
(* A source image is [width, height, pixels], as the buffer to_image       *)
(* draws into; a colour is <<r, g, b, a>>.                                 *)

\* abs_sub
abs_sub(a, b) == IF a >= b THEN a - b ELSE b - a

\* vec4_len_squared
vec4_len_squared(a, b, c, d) == a * a + b * b + c * c + d * d

\* color_distance
color_distance(a, b) ==
    vec4_len_squared(abs_sub(a[1], b[1]), abs_sub(a[2], b[2]),
                     abs_sub(a[3], b[3]), abs_sub(a[4], b[4]))

\* dedup_distance: the alpha difference counts a quarter.
dedup_distance(a, b) ==
    vec4_len_squared(abs_sub(a[1], b[1]), abs_sub(a[2], b[2]),
                     abs_sub(a[3], b[3]), abs_sub(a[4], b[4]) \div 4)

\* Mutant of palette_colors: every colour the palette holds, uncut.
palette_colors_Uncut(p) == p.colors

\* palette_colors of quantize_to_palette: the palette's slice, or the 1 << W
\* colours to_rgba gives where there is no slice.
palette_colors(p) ==
    IF get_slice(p).some THEN get_slice(p).slice
    ELSE [i \in 1..Pow2(width(p)) |-> to_rgba(p, i - 1).color]

\* Mutant of NearestIndex: among the nearest entries the highest index.
NearestIndex_Highest(pix, colors) ==
    LET d(i) == color_distance(pix, colors[i])
    IN  (CHOOSE i \in 1..Len(colors) :
            \A j \in 1..Len(colors) : d(i) < d(j) \/ (d(i) = d(j) /\ i >= j)) - 1

\* The minimum of the pairs (color_distance(pix, col), ind): the least
\* distance, and the least index among the entries at that distance.
NearestIndex(pix, colors) ==
    LET d(i) == color_distance(pix, colors[i])
    IN  (CHOOSE i \in 1..Len(colors) :
            \A j \in 1..Len(colors) : d(i) < d(j) \/ (d(i) = d(j) /\ i <= j)) - 1

\* The pixels from the i-th on, with the cache quant_cache (a function from
\* the colours met so far to their indices) filled along the way.
RECURSIVE QuantizeFrom(_, _, _, _)
QuantizeFrom(pixels, i, colors, quant_cache) ==
    IF i > Len(pixels) THEN << >>
    ELSE LET pix == pixels[i]
         IN  IF pix \in DOMAIN quant_cache
             THEN <<quant_cache[pix]>> \o QuantizeFrom(pixels, i + 1, colors, quant_cache)
             ELSE LET c == NearestIndex(pix, colors)
                  IN  <<c>> \o QuantizeFrom(pixels, i + 1, colors,
                                            [q \in DOMAIN quant_cache \cup {pix} |->
                                                IF q = pix THEN c ELSE quant_cache[q]])

\* quantize_to_palette: [res, indices].  min() of no entry at all aborts.
quantize_to_palette(img, p) ==
    IF Len(img.pixels) > 0 /\ Len(palette_colors(p)) = 0
    THEN [res |-> "Panic", indices |-> << >>]
    ELSE [res |-> "Ok",
          indices |-> QuantizeFrom(img.pixels, 1, palette_colors(p), << >>)]

\* The distinct colours of an image.
ColorsOf(img) == { img.pixels[i] : i \in 1..Len(img.pixels) }

\* successes of generate_palette: the number of pixels of each colour.
successes(img) ==
    [col \in ColorsOf(img) |-> Cardinality({ i \in 1..Len(img.pixels) : img.pixels[i] = col })]

\* The orders in which the HashMap successes can hand out its entries.
IterationOrders(img) ==
    { f \in [1..Cardinality(ColorsOf(img)) -> ColorsOf(img)] :
        \A i, j \in DOMAIN f : f[i] = f[j] => i = j }

\* similars after the entries from the i-th on of order are placed: an entry
\* joins the first cluster whose first member is nearer than dedup_thresh,
\* or else starts a cluster of its own.
RECURSIVE Similars(_, _, _, _, _)
Similars(order, i, counts, dedup_thresh, similars) ==
    IF i > Len(order) THEN similars
    ELSE LET col == order[i]
             entry == [col |-> col, count |-> counts[col]]
             near == { k \in 1..Len(similars) :
                         dedup_distance(similars[k][1].col, col) < dedup_thresh }
         IN  IF near = {}
             THEN Similars(order, i + 1, counts, dedup_thresh, Append(similars, <<entry>>))
             ELSE LET k == CHOOSE n \in near : \A m \in near : n <= m
                  IN  Similars(order, i + 1, counts, dedup_thresh,
                               [similars EXCEPT ![k] = Append(@, entry)])

\* The sum of a sequence of numbers.
RECURSIVE SumSeq(_)
SumSeq(v) == IF v = << >> THEN 0 ELSE v[1] + SumSeq(Tail(v))

\* One entry of rank: the colour of the cluster (the mean of its members
\* weighted by their counts, each channel cut to an integer), its total
\* count, and the cluster itself.
RankEntry(cat) ==
    LET total == SumSeq([j \in 1..Len(cat) |-> cat[j].count])
        channel(ch) ==
            (SumSeq([j \in 1..Len(cat) |-> cat[j].col[ch] * cat[j].count]) \div total) % 256
    IN  [col |-> <<channel(1), channel(2), channel(3), channel(4)>>,
         total |-> total, cat |-> cat]

\* Mutant of SortByTotal: the ranking is left in the order of the clusters.
SortByTotal_Unsorted(entries) == entries

\* rank.sort_by_key(|cc| -cc.1): a stable sort, the greatest total first.
SortByTotal(entries) ==
    LET RECURSIVE insert(_, _)
        insert(sorted, x) ==
            IF sorted = << >> THEN <<x>>
            ELSE IF sorted[Len(sorted)].total >= x.total THEN Append(sorted, x)
            ELSE Append(insert(SubSeq(sorted, 1, Len(sorted) - 1), x), sorted[Len(sorted)])
        RECURSIVE upto(_)
        upto(n) == IF n = 0 THEN << >> ELSE insert(upto(n - 1), entries[n])
    IN  upto(Len(entries))

\* generate_palette with the HashMap handing out its entries in order:
\* [rank, palette].
generate_palette(img, dedup_thresh, order) ==
    LET similars == Similars(order, 1, successes(img), dedup_thresh, << >>)
        ranked == SortByTotal([k \in 1..Len(similars) |-> RankEntry(similars[k])])
    IN  [rank |-> ranked,
         palette |-> DynamicPaletteView([k \in 1..Len(ranked) |-> ranked[k].col])]

\* from_image without blur: [res, node, palettified].  An error of mount is
\* unreachable!(), which aborts.
from_image(self, img, p, sensitivity, grad) ==
    IF img.width # img.height
    THEN [res |-> "NonSquare", node |-> self, palettified |-> << >>]
    ELSE IF ~is_power_of_two(img.width)
    THEN [res |-> "NonPowerOfTwo", node |-> self, palettified |-> << >>]
    ELSE LET q == quantize_to_palette(img, p)
         IN  IF q.res # "Ok" THEN [res |-> "Panic", node |-> self, palettified |-> << >>]
             ELSE LET m == mount(self, q.indices, p, sensitivity, grad)
                  IN  [res |-> IF m.res = "Ok" THEN "Ok" ELSE "Panic",
                       node |-> m.node, palettified |-> q.indices]

---------------------------------------------------------------------------
(* The state machine of quantization: a palette is generated from a        *)
(* source image, or one is given; the image is quantized, alone or within  *)
(* from_image.                                                             *)

MaxQuantWidth == 2

\* The colours of the source images: transparent black, the first two
\* palette colours, and a colour between the second and the third.
QColors == << TransparentBlack, PaletteColor(0), PaletteColor(1), <<3, 12, 0, 250>> >>

SourcePatterns == [a : {0, 1}, b : {0, 1, 2}, c : {0, 1}, m : 1..4]

SourceImage(p, w, h) ==
    [width |-> w, height |-> h,
     pixels |-> [i \in 1..(w * h) |->
                    QColors[((p.a * ((i - 1) % w) + p.b * ((i - 1) \div w) + p.c) % p.m) + 1]]]

\* Square images of side 2^k, one that is not square and one whose side is
\* not a power of two.
SourceDims == { <<Pow2(k), Pow2(k)>> : k \in 0..MaxK } \cup { <<2, 1>>, <<3, 3>> }

SourceImages == { SourceImage(p, d[1], d[2]) : p \in SourcePatterns, d \in SourceDims }

\* The palettes of every variant for the widths quantized with, and dynamic
\* views over one and over three colours.
QuantPalettes ==
    UNION { PipePalettes(w) : w \in 1..MaxQuantWidth }
    \cup { DynamicPaletteView(PaletteColors(len, len)) : len \in {1, 3} }

\* The values of dedup_thresh: no colour near another, only the last two,
\* the second near both its neighbours, all of them near one another.
DedupThresholds == {0, 30, 60, 5000}

InitQuantize ==
    /\ pc = "start"
    /\ canvas \in SourceImages
    /\ palette \in QuantPalettes
    /\ image = << >>
    /\ sens = 0
    /\ gradient = FALSE
    /\ node = DefaultNode
    /\ res = "None"
    /\ bits = << >>
    /\ decoded = DefaultNode
    /\ ind = 0
    /\ start_ind = 0
    /\ rank = << >>
    /\ hdr = NoHeader
    /\ depth = 0
    /\ before = DefaultNode
    /\ bytes = << >>
    /\ palette2 = DynamicPaletteView(<< >>)
    /\ drawGradient = FALSE

\* generate_palette; the HashMap hands out its entries in any order.
DoGeneratePalette(dedup_thresh) ==
    /\ pc = "start"
    /\ \E order \in IterationOrders(canvas) :
          LET r == generate_palette(canvas, dedup_thresh, order)
          IN  /\ rank' = r.rank
              /\ palette' = r.palette
    /\ pc' = "generate_palette"
    /\ UNCHANGED <<depth, before, hdr, image, sens, gradient, node, res, bits, decoded, ind,
                   bytes, palette2, canvas, drawGradient, start_ind>>

DoQuantize ==
    /\ pc \in {"start", "generate_palette"}
    /\ LET r == quantize_to_palette(canvas, palette)
       IN  /\ image' = r.indices
           /\ res' = r.res
    /\ pc' = "quantize"
    /\ UNCHANGED <<depth, before, hdr, palette, sens, gradient, node, bits, decoded, ind,
                   bytes, palette2, canvas, drawGradient, start_ind, rank>>

DoFromImage(s, g) ==
    /\ pc \in {"start", "generate_palette"}
    /\ LET r == from_image(node, canvas, palette, s, g)
       IN  /\ node' = r.node
           /\ image' = r.palettified
           /\ res' = r.res
    /\ sens' = s
    /\ gradient' = g
    /\ pc' = "from_image"
    /\ UNCHANGED <<depth, before, hdr, palette, bits, decoded, ind,
                   bytes, palette2, canvas, drawGradient, start_ind, rank>>

NextQuantize ==
    \/ \E t \in DedupThresholds : DoGeneratePalette(t)
    \/ DoQuantize
    \/ \E s \in PipeSens, g \in BOOLEAN : DoFromImage(s, g)

SpecQuantize == InitQuantize /\ [][NextQuantize]_vars

\* The source image is square with a power-of-two side.
SquarePowerOfTwo(img) == img.width = img.height /\ is_power_of_two(img.width)

\* C13: every index quantize_to_palette returns is below 2^W for the width W
\* of the palette, whatever the variant of the palette, and from_image on a
\* square image of power-of-two side returns Ok: its mount never fails.
C13_QuantizedIndicesValid ==
    /\ pc = "quantize" =>
          /\ res = "Ok"
          /\ Len(image) = Len(canvas.pixels)
          /\ \A i \in 1..Len(image) : image[i] < Pow2(width(palette))
    /\ (pc = "from_image" /\ SquarePowerOfTwo(canvas)) =>
          /\ res = "Ok"
          /\ \A i \in 1..Len(image) : image[i] < Pow2(width(palette))

\* C13 witness: from_image has built a tree with branches from an image
\* quantized with a dynamic view over three colours, of width 1.
C13_Witness ==
    /\ pc = "from_image" /\ res = "Ok"
    /\ palette.kind = "dynamic" /\ Len(palette.colors) = 3
    /\ ~IsLeaf(node)
    /\ \E i \in 1..Len(image) : image[i] = 1

\* The smallest W with 2^W >= n.
CeilLog2(n) == CHOOSE e \in 0..31 : Pow2(e) >= n /\ \A d \in 0..(e - 1) : Pow2(d) < n

\* C14: the width of a DynamicPaletteView over n >= 1 colours, such as
\* generate_palette returns, is the smallest W with 2^W >= n and lies in
\* 1..32, so that every entry has an index below 2^W.
C14_DynamicWidthCovers ==
    (pc = "generate_palette" /\ Len(palette.colors) >= 1) =>
        /\ width(palette) = Max(1, CeilLog2(Len(palette.colors)))
        /\ width(palette) \in 1..32
        /\ Len(palette.colors) <= Pow2(width(palette))

\* The entries an index below 2^W addresses.
Addressable(p) == [i \in 1..Pow2(width(p)) |-> to_rgba(p, i - 1).color]

\* An index of the least distance to pix among colors, and the lowest such.
IsNearestLowest(c, pix, colors) ==
    /\ c + 1 \in 1..Len(colors)
    /\ \A j \in 1..Len(colors) :
          /\ color_distance(pix, colors[c + 1]) <= color_distance(pix, colors[j])
          /\ color_distance(pix, colors[c + 1]) = color_distance(pix, colors[j]) => c + 1 <= j

\* C19: quantize_to_palette gives for each pixel, in row-major order, the
\* lowest index among the 2^W addressable entries at the least squared RGBA
\* distance from the pixel's colour: the cache changes no result.
C19_NearestLowestIndex ==
    pc = "quantize" =>
        /\ res = "Ok"
        /\ Len(image) = Len(canvas.pixels)
        /\ \A i \in 1..Len(image) :
              IsNearestLowest(image[i], canvas.pixels[i], Addressable(palette))

\* C19 witness: an image with a colour met twice and a transparent pixel,
\* quantized with a palette that has several transparent entries, the
\* lowest of them not entry 0.
C19_Witness ==
    /\ pc = "quantize" /\ res = "Ok"
    /\ \E i, j \in 1..Len(image) : i < j /\ canvas.pixels[i] = canvas.pixels[j]
    /\ \E i \in 1..Len(image) :
          /\ canvas.pixels[i] = TransparentBlack
          /\ image[i] > 0
          /\ \E k \in 1..Len(palette_colors(palette)) :
                k > image[i] + 1 /\ palette_colors(palette)[k] = TransparentBlack

\* The colours that are members of cluster k of rank.
Members(k) == { rank[k].cat[j].col : j \in 1..Len(rank[k].cat) }

\* C20: generate_palette puts every distinct colour of the image into
\* exactly one cluster; the palette's entries are the clusters' colours in
\* the order of rank, whose totals never increase and sum to the number of
\* pixels.
C20_PaletteRanking ==
    pc = "generate_palette" =>
        /\ \A col \in ColorsOf(canvas) :
              Cardinality({ k \in 1..Len(rank) : col \in Members(k) }) = 1
        /\ \A k \in 1..Len(rank) :
              /\ Members(k) \subseteq ColorsOf(canvas)
              /\ Cardinality(Members(k)) = Len(rank[k].cat)
              /\ rank[k].total = SumSeq([j \in 1..Len(rank[k].cat) |->
                                            successes(canvas)[rank[k].cat[j].col]])
        /\ palette.colors = [k \in 1..Len(rank) |-> rank[k].col]
        /\ \A k \in 1..(Len(rank) - 1) : rank[k].total >= rank[k + 1].total
        /\ SumSeq([k \in 1..Len(rank) |-> rank[k].total]) = Len(canvas.pixels)

\* C20 witness: a ranking of three clusters, one of two colours, with
\* totals that differ.
C20_Witness ==
    /\ pc = "generate_palette"
    /\ Len(rank) = 3
    /\ \E k \in 1..3 : Len(rank[k].cat) = 2
    /\ rank[1].total > rank[3].total

---------------------------------------------------------------------------
(* The palette and the layout of a written file.                           *)

\* C15: the palette from_qti returns for a file to_qti wrote with palette p
\* of width W has width W and gives the colour p gives for every index
\* below 2^W, whatever the variant of p.
C15_PaletteSurvives ==
    (pc = "from_qti" /\ res = "Ok") =>
        /\ width(palette2) = width(palette)
        /\ \A i \in 0..(Pow2(width(palette)) - 1) :
              /\ to_rgba(palette2, i).ok
              /\ to_rgba(palette2, i).color = to_rgba(palette, i).color

\* The layout of the file to_qti wrote from node and palette: the magic,
\* version 1, byte 7 with W - 1 in its low five bits and chunks - 9 above,
\* chunks * 2^W / 16 palette entries in index order, then the bits of the
\* tree from a fresh byte on, where from_qti starts to decode.
WrittenLayout ==
    LET w == width(palette)
        chunks == (bytes[8] \div 32) + 9
        stored == (chunks * Pow2(w)) \div 16
        tree == encode_v1(node, << >>, palette).buffer
    IN  /\ Len(bytes) = 8 + 4 * stored + ((NodeCount(node) * (w + 1) + 7) \div 8)
        /\ SubSeq(bytes, 1, 6) = Magic
        /\ bytes[7] = 1
        /\ bytes[8] % 32 = w - 1
        /\ chunks \in 9..16
        /\ w >= 4 => 16 * stored = chunks * Pow2(w)
        /\ \A i \in 0..(stored - 1) :
              SubSeq(bytes, 9 + 4 * i, 12 + 4 * i) = to_rgba(palette, i).color
        /\ SubSeq(bytes, 9 + 4 * stored, Len(bytes)) = BytesOfBits(tree)
        /\ pal_len(bytes[8]) = stored

---------------------------------------------------------------------------
(* to_qti's length arithmetic at the widths whose palettes are too large   *)
(* to write out here.  For W >= 4 the counts are kept in chunks of         *)
(* 2^(W-4) entries, a sixteenth of the palette, so that the 32-bit values  *)
(* of the code have a representation: approx_len is stored * 2^(W-4).      *)
(* Width 32, where 1 << W itself overflows, is left out.                   *)

HeaderWidths == 4..31

\* The sixteenths of the palette that palette_len fills, rounded up:
\* palette_len is at least nine sixteenths and at most the whole.
Sixteenths == 9..16

\* Overflow checks are compiled in (the arithmetic aborts) or not (it wraps).
Builds == {"debug", "release"}

\* (palette_len as f64 * 16. / (1 << W) as f64).ceil() as u32: the literal
\* 1 is an i32 there, so for W = 31 the divisor is negative, and a negative
\* quotient converts to 0.
CeilSixteenths(w, sixteenths) == IF w = 31 THEN 0 ELSE sixteenths

\* The u32 product c * (1 << W) reaches 2^32.
ProductOverflows(c, w) == c >= Pow2(32 - w)

\* approx_len and the length indicator byte: [res, stored, byte].  The
\* product c * 2^W wraps to (c mod 2^(32-W)) * 2^W, and its sixteenth is
\* c mod 2^(32-W) chunks; (approx_len * 16) / (1 << W) is that number again,
\* and subtracting 9 from less than 9 wraps, of which `<< 5` as u8 keeps the
\* low three bits.
HeaderArithmetic(w, sixteenths, build) ==
    LET c == CeilSixteenths(w, sixteenths)
        stored == c % Pow2(32 - w)
    IN  IF build = "debug" /\ (ProductOverflows(c, w) \/ stored < 9)
        THEN [res |-> "Panic", stored |-> 0, byte |-> 0]
        ELSE [res |-> "Ok", stored |-> stored,
              byte |-> (((stored - 9) % 8) * 32) + (w - 1)]

InitHeader ==
    /\ pc = "width"
    /\ hdr \in [w : HeaderWidths, sixteenths : Sixteenths, build : Builds,
                res : {"None"}, stored : {0}, byte : {0}]
    /\ depth = 0
    /\ before = DefaultNode
    /\ palette = DynamicPaletteView(<< >>)
    /\ image = << >>
    /\ sens = 0
    /\ gradient = FALSE
    /\ node = DefaultNode
    /\ res = "None"
    /\ bits = << >>
    /\ decoded = DefaultNode
    /\ ind = 0
    /\ start_ind = 0
    /\ rank = << >>
    /\ NoFile

DoHeader ==
    /\ pc = "width"
    /\ LET r == HeaderArithmetic(hdr.w, hdr.sixteenths, hdr.build)
       IN  hdr' = [hdr EXCEPT !.res = r.res, !.stored = r.stored, !.byte = r.byte]
    /\ pc' = "header"
    /\ UNCHANGED <<depth, before, palette, image, sens, gradient, node, res, bits, decoded, ind,
                   bytes, palette2, canvas, drawGradient, start_ind, rank>>

NextHeader == DoHeader

SpecHeader == InitHeader /\ [][NextHeader]_vars

\* C16: the file to_qti writes is the magic, the version byte 1, byte 7
\* with W - 1 in its low five bits and chunks - 9 in its high three, then
\* storedEntries = chunks * 2^W / 16 palette entries of four bytes in index
\* order, then the tree's bits from byte 8 + 4 * storedEntries on, which is
\* where from_qti starts to decode; this for every width from 1 to 32.
C16_ByteLayout ==
    /\ (pc = "to_qti" /\ res = "Ok") => WrittenLayout
    /\ pc = "header" =>
          /\ hdr.res = "Ok"
          /\ hdr.byte % 32 = hdr.w - 1
          /\ (hdr.byte \div 32) + 9 \in 9..16
          /\ hdr.stored = (hdr.byte \div 32) + 9

---------------------------------------------------------------------------
(* The format of the bit stream.                                           *)

\* The W binary digits of a colour, the most significant first.
MsbFirst(color, w) == [k \in 1..w |-> (color \div Pow2(w - k)) % 2]

\* The stream of a tree: for the node its flag (1 iff it has children) and
\* the W digits of its colour, then its children in the order of sections,
\* which mount and to_image lay out as top-left, top-right, bottom-left,
\* bottom-right.
RECURSIVE PreOrderBits(_, _)
PreOrderBits(n, w) ==
    IF IsLeaf(n) THEN <<0>> \o MsbFirst(n.color, w)
    ELSE <<1>> \o MsbFirst(n.color, w)
         \o PreOrderBits(n.sections[1], w) \o PreOrderBits(n.sections[2], w)
         \o PreOrderBits(n.sections[3], w) \o PreOrderBits(n.sections[4], w)

\* C17: encode_v1 appends the nodes in pre-order, W + 1 bits a node: the
\* flag bit, 1 iff the node has children, then the colour's W bits with the
\* most significant first; the four children follow their parent at once,
\* in the order of sections.
C17_BitstreamFormat ==
    (pc = "encode" /\ res = "Ok") =>
        /\ bits = PreOrderBits(node, width(palette))
        /\ Len(bits) = (width(palette) + 1) * NodeCount(node)

\* C17 witness: an encoded tree with a branch below the root, and a colour
\* whose W bits read differently backwards.
C17_Witness ==
    /\ pc = "encode" /\ res = "Ok"
    /\ MaxDepth(node) >= 2
    /\ width(palette) = 3
    /\ \E i \in 1..4 : node.sections[i].color \in {1, 3, 4, 6}

---------------------------------------------------------------------------
(* to_image on trees that no mount built, into buffers of any shape.       *)

MaxDrawBranches == 2

\* Trees for a palette of width w whose colours reach 2^w - 1, 2^w or
\* 2^w + 1: the last two are out of the palette's range.
DrawTrees(w) ==
    { Paint(t, seed, Pow2(w) + extra) :
        t \in Shapes(MaxDrawBranches), seed \in 0..MaxSeed, extra \in {0, 1, 2} }

\* Buffers of side 2^k, one that is not square, one of a side that is not
\* a power of two.
DrawBuffers ==
    { NewCanvas(Pow2(k), Pow2(k)) : k \in 0..MaxK } \cup { NewCanvas(2, 1), NewCanvas(3, 3) }

InitDraw ==
    /\ pc = "tree"
    /\ \E w \in 1..MaxQuantWidth :
          /\ palette \in PipePalettes(w)
          /\ node \in DrawTrees(w)
    /\ canvas \in DrawBuffers
    /\ drawGradient = FALSE
    /\ image = << >>
    /\ sens = 0
    /\ gradient = FALSE
    /\ res = "None"
    /\ bits = << >>
    /\ decoded = DefaultNode
    /\ ind = 0
    /\ start_ind = 0
    /\ rank = << >>
    /\ hdr = NoHeader
    /\ depth = 0
    /\ before = DefaultNode
    /\ bytes = << >>
    /\ palette2 = DynamicPaletteView(<< >>)

\* to_image called by an outside caller on node, into the buffer canvas.
DoDraw(g) ==
    /\ pc = "tree"
    /\ LET r == to_image(node, canvas, palette, g)
       IN  /\ canvas' = r.canvas
           /\ res' = r.res
    /\ drawGradient' = g
    /\ pc' = "draw"
    /\ UNCHANGED <<depth, before, hdr, palette, image, sens, gradient, node, bits, decoded, ind,
                   bytes, palette2, start_ind, rank>>

NextDraw == \E g \in BOOLEAN : DoDraw(g)

SpecDraw == InitDraw /\ [][NextDraw]_vars

\* The colours to_image reads when it draws n over a square of side size:
\* that of n, and below a node with children on a side above 1 those of its
\* four leaves in gradient mode, or else those its sections read.
RECURSIVE DrawnColors(_, _, _)
DrawnColors(n, size, grad) ==
    {n.color} \cup
    IF size <= 1 \/ IsLeaf(n) THEN {}
    ELSE IF grad /\ \A i \in 1..4 : IsLeaf(n.sections[i])
    THEN { n.sections[i].color : i \in 1..4 }
    ELSE UNION { DrawnColors(n.sections[i], size \div 2, grad) : i \in 1..4 }

\* C18: to_image returns NonSquare for a buffer whose width is not its
\* height, NonPowerOfTwo for a square buffer whose side is no power of two,
\* and ColorOutOfRange when a node it draws, or a leaf it reads in gradient
\* mode, has a colour of 2^W or more, whatever the variant of the palette.
C18_RendererErrors ==
    pc = "draw" =>
        /\ canvas.width # canvas.height => res = "NonSquare"
        /\ (canvas.width = canvas.height /\ ~is_power_of_two(canvas.width)) =>
              res = "NonPowerOfTwo"
        /\ (/\ SquarePowerOfTwo(canvas)
            /\ \E c \in DrawnColors(node, canvas.width, drawGradient) :
                  c >= Pow2(width(palette))) =>
              res = "ColorOutOfRange"

---------------------------------------------------------------------------
(* The builder, node by node.                                              *)

\* C21: when mount returns an error, InvalidSize or a ColorOutOfRange from
\* any depth, the node it was called on is as it was before the call (here
\* a fresh node): no colour assigned, no children attached.
C21_ErrorLeavesNodeUntouched ==
    (pc = "mount" /\ res # "Ok") =>
        /\ res \in {"InvalidSize", "ColorOutOfRange"}
        /\ node = DefaultNode

\* The number of cells of a region that hold colour c.
Occurrences(img, cells, c) == Cardinality({ i \in cells : img[i] = c })

\* c occurs in the region at least as often as any index, and is the lowest
\* of those that occur as often.
IsLowestMajority(c, img, cells) ==
    \A d \in { img[i] : i \in cells } :
        \/ Occurrences(img, cells, c) > Occurrences(img, cells, d)
        \/ Occurrences(img, cells, c) = Occurrences(img, cells, d) /\ c <= d

\* floor(sensitivity * S^2 / 16384) and floor(sensitivity * S^2 / 65536)
LeafThreshold(size, sensitivity) == (sensitivity * size * size) \div FullSensitivity
GradientFloor(size, sensitivity) == (sensitivity * size * size) \div GradientDivisor

\* The n greatest occurrence counts among the colours of a region.
RECURSIVE GreatestCounts(_, _, _, _)
GreatestCounts(img, cells, colors, n) ==
    IF colors = {} \/ n = 0 THEN << >>
    ELSE LET c == CHOOSE c \in colors : \A d \in colors :
                      Occurrences(img, cells, c) >= Occurrences(img, cells, d)
         IN  <<Occurrences(img, cells, c)>> \o GreatestCounts(img, cells, colors \ {c}, n - 1)

\* The sum, over the four most abundant colours of a region, of the counts
\* above the gradient floor.
GradientWeight(img, cells, size, sensitivity) ==
    LET top == GreatestCounts(img, cells, { img[i] : i \in cells }, 4)
    IN  SumSeq([k \in 1..Len(top) |->
                   IF top[k] > GradientFloor(size, sensitivity) THEN top[k] ELSE 0])

\* A region that must split gets its children by gradient-leaf sampling.
GradientTriggered(img, cells, size, sensitivity, grad) ==
    /\ grad
    /\ size > 2
    /\ GradientWeight(img, cells, size, sensitivity) > LeafThreshold(size, sensitivity)

\* The nodes of a built tree that stand for a region, each with its region:
\* the root, and the children of such a node unless they were sampled.
RECURSIVE RegionNodes(_, _, _, _, _, _)
RegionNodes(n, img, pos, size, sensitivity, grad) ==
    { [node |-> n, pos |-> pos, size |-> size] } \cup
    IF IsLeaf(n) \/ size <= 1
       \/ GradientTriggered(img, RegionCells(Side(img), pos, size), size, sensitivity, grad)
    THEN {}
    ELSE UNION { RegionNodes(n.sections[i], img, ChildRegionPos(pos, size, i), size \div 2,
                             sensitivity, grad) : i \in 1..4 }

\* The region nodes of the tree just built.
BuiltRegionNodes == RegionNodes(node, image, <<0, 0>>, Side(image), sens, gradient)

\* The cells of the region of a region node.
CellsOf(r) == RegionCells(Side(image), r.pos, r.size)

Built == pc = "mount" /\ res = "Ok"

\* C22: the colour of every node built from a region is an index that
\* occurs most often in the region, the lowest of those that do.
C22_MajorityLowestIndex ==
    Built => \A r \in BuiltRegionNodes : IsLowestMajority(r.node.color, image, CellsOf(r))

\* C22 witness: a tree with a node below the root whose region has two
\* indices at the greatest count.
C22_Witness ==
    /\ Built
    /\ \E r \in BuiltRegionNodes :
          /\ r.size < Side(image)
          /\ \E d \in { image[i] : i \in CellsOf(r) } :
                /\ d # r.node.color
                /\ Occurrences(image, CellsOf(r), d) = Occurrences(image, CellsOf(r), r.node.color)

\* C23: a node built for a region of side above 1 is a leaf if and only if
\* its colour occurs at least floor(sensitivity * S^2 / 16384) times in the
\* region; a node for a region of side 1 is a leaf.
C23_LeafThreshold ==
    Built => \A r \in BuiltRegionNodes :
        /\ r.size = 1 => IsLeaf(r.node)
        /\ r.size > 1 =>
              (IsLeaf(r.node) <=> Occurrences(image, CellsOf(r), r.node.color)
                                     >= LeafThreshold(r.size, sens))

\* C23 witness: a tree with a leaf whose region is not uniform, and a node
\* with children, both over regions of side above 1.
C23_Witness ==
    /\ Built
    /\ \E r \in BuiltRegionNodes :
          r.size > 1 /\ IsLeaf(r.node) /\ ~Uniform(image, CellsOf(r))
    /\ \E r \in BuiltRegionNodes : r.size > 1 /\ ~IsLeaf(r.node)

\* The region nodes of the built tree that have children.
SplitRegionNodes == { r \in BuiltRegionNodes : ~IsLeaf(r.node) }

Triggered(r) == GradientTriggered(image, CellsOf(r), r.size, sens, gradient)

\* The corner of the region of r sampled for child i (0..3): side S/4, at
\* x = 3S/4 if (i & 1) else 0 and y = 3S/4 if (i & 2) else 0.
CornerOrigin(r, i) ==
    <<r.pos[1] + (IF i % 2 = 1 THEN (3 * r.size) \div 4 ELSE 0),
      r.pos[2] + (IF i \div 2 = 1 THEN (3 * r.size) \div 4 ELSE 0)>>

CornerCells(r, i) == RegionCells(Side(image), CornerOrigin(r, i), r.size \div 4)

\* Child i (0..3) of r is a leaf holding the lowest majority index of its
\* corner.
SampledChild(r, i) ==
    /\ IsLeaf(r.node.sections[i + 1])
    /\ IsLowestMajority(r.node.sections[i + 1].color, image, CornerCells(r, i))

\* The tree built on a fresh node for quadrant i (0..3) of the region of r.
QuadrantTree(r, i) ==
    MountAt(DefaultNode, image, width(palette), r.size \div 2,
            ChildRegionPos(r.pos, r.size, i + 1), sens, gradient).node

\* C24: the children of a split node are sampled leaves exactly when the
\* gradient flag is set, the side is above 2 and the gradient-leaf sum is
\* above floor(sensitivity * S^2 / 16384); otherwise child i is the tree
\* built for the quadrant at (x + (i & 1)*S/2, y + (i >> 1)*S/2).
C24_GradientTrigger ==
    Built => \A r \in SplitRegionNodes :
        IF Triggered(r)
        THEN \A i \in 0..3 : SampledChild(r, i)
        ELSE \A i \in 0..3 : r.node.sections[i + 1] = QuadrantTree(r, i)

\* C24 witness: a built tree with sampled children that differ from the
\* quadrants' trees.
C24_Witness ==
    /\ Built
    /\ \E r \in SplitRegionNodes :
          /\ Triggered(r)
          /\ \E i \in 0..3 : r.node.sections[i + 1] # QuadrantTree(r, i)

---------------------------------------------------------------------------
(* The builder on grids of side 2^(MaxK + 1), whose gradient-leaf corners  *)
(* have side above 1.                                                      *)

GradientPatterns(side) ==
    [a : {0, 1}, b : {0, 1}, q : {0, 1}, c : {0}, m : {2, 3}, d : {0, 1, side + 2}]

GradientGrids ==
    { Grid(p, Pow2(MaxK + 1)) : p \in GradientPatterns(Pow2(MaxK + 1)) }

InitGradient ==
    /\ pc = "start"
    /\ image \in GradientGrids
    /\ palette = GenericPalette(MaxWidth)
    /\ sens = 0
    /\ gradient = FALSE
    /\ node = DefaultNode
    /\ res = "None"
    /\ bits = << >>
    /\ decoded = DefaultNode
    /\ ind = 0
    /\ start_ind = 0
    /\ rank = << >>
    /\ hdr = NoHeader
    /\ depth = 0
    /\ before = DefaultNode
    /\ NoFile

NextGradient == \E s \in SensSet, g \in BOOLEAN : DoMount(s, g)

SpecGradient == InitGradient /\ [][NextGradient]_vars

\* C25: in gradient-leaf mode child i is a leaf whose colour is the lowest
\* majority index of the corner of side S/4 at x = 3S/4 if (i & 1) else 0,
\* y = 3S/4 if (i & 2) else 0; the corner lies inside the region.
C25_CornerSampling ==
    Built => \A r \in SplitRegionNodes :
        Triggered(r) => \A i \in 0..3 :
            /\ SampledChild(r, i)
            /\ CornerCells(r, i) # {}
            /\ CornerCells(r, i) \subseteq CellsOf(r)

\* C25 witness: a sampled child whose corner has side above 1 and two
\* indices at the greatest count, the bottom-right child included.
C25_Witness ==
    /\ Built
    /\ \E r \in SplitRegionNodes :
          /\ Triggered(r)
          /\ r.size >= 8
          /\ \E d \in { image[k] : k \in CornerCells(r, 3) } :
                /\ d # r.node.sections[4].color
                /\ Occurrences(image, CornerCells(r, 3), d)
                     = Occurrences(image, CornerCells(r, 3), r.node.sections[4].color)

\* C30: at sensitivity 16384 mount returns the same result and builds the
\* same tree with the gradient flag set and with it cleared.
C30_GradientIdleAtFullSensitivity ==
    (pc = "mount" /\ sens = FullSensitivity) =>
        LET other == mount(DefaultNode, image, palette, FullSensitivity, ~gradient)
        IN  node = other.node /\ res = other.res

\* C30 witness: a grid of side above 2 built with the flag set at
\* sensitivity 16384 into a tree with children, whose root region has a
\* gradient-leaf sum of S^2.
C30_Witness ==
    /\ Built
    /\ sens = FullSensitivity
    /\ gradient
    /\ Side(image) > 2
    /\ ~IsLeaf(node)
    /\ GradientWeight(image, AllCells(image), Side(image), sens) = Len(image)

---------------------------------------------------------------------------
(* The renderer's gradient.                                                *)

\* trunc(a + (b - a) * k / S) for channel values a and b: the fraction is
\* cut off toward a when b is above a, and toward zero in any case.
TruncLerp(a, b, k, S) ==
    IF b >= a THEN a + ((b - a) * k) \div S
    ELSE a - (((a - b) * k + S - 1) \div S)

\* lerp(lerp(TL, TR, i/S), lerp(BL, BR, i/S), j/S), channel by channel.
Bilinear(tl, tr, bl, br, i, j, S) ==
    [ch \in 1..4 |-> TruncLerp(TruncLerp(tl[ch], tr[ch], i, S),
                               TruncLerp(bl[ch], br[ch], i, S), j, S)]

\* The nodes to_image reaches in gradient mode, each with its region: the
\* root, and the children of a reached node of side above 1 unless all four
\* are leaves.
RECURSIVE ReachedNodes(_, _, _)
ReachedNodes(n, pos, size) ==
    { [node |-> n, pos |-> pos, size |-> size] } \cup
    IF IsLeaf(n) \/ size <= 1 \/ \A i \in 1..4 : IsLeaf(n.sections[i]) THEN {}
    ELSE UNION { ReachedNodes(n.sections[i], ChildRegionPos(pos, size, i), size \div 2)
                 : i \in 1..4 }

\* The reached branch nodes whose four children are all leaves.
GradientNodes ==
    { r \in ReachedNodes(node, <<0, 0>>, canvas.width) :
        ~IsLeaf(r.node) /\ \A i \in 1..4 : IsLeaf(r.node.sections[i]) }

ChildRgba(r, i) == to_rgba(palette, r.node.sections[i].color).color

\* The region of r holds the bilinear gradient of its children's colours.
RendersBilinear(r) ==
    \A i, j \in 0..(r.size - 1) :
        PixelAt(canvas, r.pos[1] + i, r.pos[2] + j)
            = Bilinear(ChildRgba(r, 1), ChildRgba(r, 2), ChildRgba(r, 3), ChildRgba(r, 4),
                       i, j, r.size)

\* The consequences named with the rule: the origin holds the top-left
\* colour, and four equal colours give a uniform square.
RendersCorners(r) ==
    /\ PixelAt(canvas, r.pos[1], r.pos[2]) = ChildRgba(r, 1)
    /\ (\A i \in 2..4 : ChildRgba(r, i) = ChildRgba(r, 1)) =>
          \A i, j \in 0..(r.size - 1) :
              PixelAt(canvas, r.pos[1] + i, r.pos[2] + j) = ChildRgba(r, 1)

DrawnWithGradient == pc = "draw" /\ res = "Ok" /\ drawGradient

\* C27 as stated: with gradient enabled, the region of every branch node
\* whose four children are leaves holds
\* lerp(lerp(TL, TR, i/S), lerp(BL, BR, i/S), j/S), whatever its side S.
C27_BilinearGradient ==
    DrawnWithGradient => \A r \in GradientNodes : RendersBilinear(r) /\ RendersCorners(r)

\* C27, amended: the rule holds for the regions of side above 1; a region
\* of side 1 holds the colour of the branch node itself.
C27_BilinearAboveOne ==
    DrawnWithGradient => \A r \in GradientNodes :
        IF r.size > 1 THEN RendersBilinear(r) /\ RendersCorners(r)
        ELSE PixelAt(canvas, r.pos[1], r.pos[2]) = to_rgba(palette, r.node.color).color

\* C27 witness: a gradient drawn over a region of side 2 below the root,
\* between colours whose midpoint is not an integer.
C27_Witness ==
    /\ DrawnWithGradient
    /\ \E r \in GradientNodes :
          /\ r.size = 2
          /\ r.pos # <<0, 0>>
          /\ \E ch \in 1..4 :
                (ChildRgba(r, 2)[ch] - ChildRgba(r, 1)[ch]) % 2 # 0

---------------------------------------------------------------------------
(* trim.                                                                   *)

\* col_f: colour -> number of the four sections holding it.
col_f(sections) ==
    [c \in { sections[i].color : i \in 1..4 } |->
        Cardinality({ i \in 1..4 : sections[i].color = c })]

\* Mutant of TrimCondition: two colours are enough, however they are split.
TrimCondition_AnyTwo(freq) ==
    Cardinality(DOMAIN freq) = 3 \/ Cardinality(DOMAIN freq) = 2

\* freq.len() == 3 || (freq.len() == 2 && max of freq == 3)
TrimCondition(freq) ==
    \/ Cardinality(DOMAIN freq) = 3
    \/ /\ Cardinality(DOMAIN freq) = 2
       /\ \E c \in DOMAIN freq : freq[c] = 3 /\ \A e \in DOMAIN freq : freq[e] <= freq[c]

\* The node itself is examined: depth <= 0 and every section is a leaf.
TrimHere(self, d) ==
    d <= 0 /\ \A i \in 1..4 : IsLeaf(self.sections[i])

\* trim(depth) on the node self.
RECURSIVE trim(_, _)
trim(self, d) ==
    IF IsLeaf(self) THEN self
    ELSE IF TrimHere(self, d)
    THEN IF TrimCondition(col_f(self.sections))
         THEN [self EXCEPT !.sections = << >>]
         ELSE self
    ELSE [self EXCEPT !.sections = [i \in 1..4 |-> trim(self.sections[i], d - 1)]]

\* The depths handed to trim.
MaxTrimDepth == 2

TrimDepths == -1..MaxTrimDepth

\* The colours given to the four children of a node: all equal, a 2-2
\* split, 3-to-1 splits, three distinct values, four distinct values.
ColorGroups ==
    << <<0, 0, 0, 0>>, <<0, 1, 1, 0>>, <<1, 0, 0, 0>>, <<2, 0, 1, 0>>,
       <<0, 1, 2, 3>>, <<1, 1, 0, 1>>, <<3, 3, 1, 2>> >>

\* The tree of shape t whose root holds c and where the children of a node
\* get the colour group its seed selects; child i carries the seed
\* 2 * seed + i.
RECURSIVE TrimPaint(_, _, _)
TrimPaint(t, c, seed) ==
    [color |-> c,
     sections |-> IF IsLeaf(t) THEN << >>
                  ELSE [i \in 1..4 |->
                           TrimPaint(t.sections[i],
                                     ColorGroups[(seed % Len(ColorGroups)) + 1][i],
                                     2 * seed + i)]]

\* The colour of the roots: none of the group colours.
RootColor == 5

TrimTrees == { TrimPaint(t, RootColor, seed) : t \in Shapes(MaxBranches), seed \in 0..MaxSeed + 1 }

InitTrim ==
    /\ pc = "tree"
    /\ node \in TrimTrees
    /\ palette = GenericPalette(MaxWidth)
    /\ image = << >>
    /\ sens = 0
    /\ gradient = FALSE
    /\ res = "None"
    /\ bits = << >>
    /\ decoded = DefaultNode
    /\ ind = 0
    /\ start_ind = 0
    /\ rank = << >>
    /\ hdr = NoHeader
    /\ depth = 0
    /\ before = DefaultNode
    /\ NoFile

\* tree.trim(d), called once or again on the trimmed tree.
DoTrim(d) ==
    /\ pc \in {"tree", "trim"}
    /\ before' = node
    /\ depth' = d
    /\ node' = trim(node, d)
    /\ pc' = "trim"
    /\ UNCHANGED <<hdr, start_ind, rank, bytes, palette2, canvas, drawGradient, palette,
                   image, sens, gradient, res, bits, decoded, ind>>

NextTrim == \E d \in TrimDepths : DoTrim(d)

SpecTrim == InitTrim /\ [][NextTrim]_vars

\* The four colours are exactly 3 distinct values, or exactly 2 distinct
\* values split 3-to-1.
NearUniform(sections) ==
    LET colors == { sections[i].color : i \in 1..4 }
        times(c) == Cardinality({ i \in 1..4 : sections[i].color = c })
    IN  \/ Cardinality(colors) = 3
        \/ Cardinality(colors) = 2 /\ \E c \in colors : times(c) = 3

\* The node b, at depth j below the node trim(d) was called on, loses its
\* children.
Collapses(b, d, j) ==
    /\ ~IsLeaf(b)
    /\ j >= d
    /\ \A i \in 1..4 : IsLeaf(b.sections[i])
    /\ NearUniform(b.sections)

\* a is b after trim(d), b standing at depth j: the collapsing nodes have
\* become leaves, every other node keeps its children, and every node keeps
\* its colour.
RECURSIVE TrimmedFrom(_, _, _, _)
TrimmedFrom(a, b, d, j) ==
    /\ a.color = b.color
    /\ IF IsLeaf(b) \/ Collapses(b, d, j) THEN IsLeaf(a)
       ELSE /\ ~IsLeaf(a)
            /\ \A i \in 1..4 : TrimmedFrom(a.sections[i], b.sections[i], d, j + 1)

\* Some node of b, at depth j or below, collapses.
RECURSIVE SomeCollapse(_, _, _)
SomeCollapse(b, d, j) ==
    \/ Collapses(b, d, j)
    \/ ~IsLeaf(b) /\ \E i \in 1..4 : SomeCollapse(b.sections[i], d, j + 1)

\* Some node of b, at depth j or below, stands at depth d or deeper and
\* has four leaf children that are kept: their colours are not near-uniform.
RECURSIVE SomeKeptGroup(_, _, _)
SomeKeptGroup(b, d, j) ==
    \/ /\ ~IsLeaf(b)
       /\ j >= d
       /\ \A i \in 1..4 : IsLeaf(b.sections[i])
       /\ ~NearUniform(b.sections)
    \/ ~IsLeaf(b) /\ \E i \in 1..4 : SomeKeptGroup(b.sections[i], d, j + 1)

\* C26: one call trim(d) removes the children of exactly the nodes at depth
\* j >= d whose four children are leaves of 3 distinct colours or of 2
\* colours split 3-to-1; every node keeps its colour and no other node
\* changes.
C26_TrimRule ==
    pc = "trim" => TrimmedFrom(node, before, depth, 0)

\* C26 witness: a call with d > 0 that collapsed a node and kept, at depth
\* d or deeper, a group of four leaves.
C26_Witness ==
    /\ pc = "trim"
    /\ depth > 0
    /\ SomeCollapse(before, depth, 0)
    /\ SomeKeptGroup(before, depth, 0)

---------------------------------------------------------------------------
(* mount and decode_v1 called again and again on one node object.          *)

\* Grids of side 1 and 2: uniform, striped either way, and of four indices.
ReusePatterns(side) ==
    [a : {0, 1}, b : {0, side}, q : {0}, c : {0, 1}, m : {1, side * side + 1}, d : {0}]

ReuseGrids == UNION { { Grid(p, side) : p \in ReusePatterns(side) } : side \in {1, 2} }

\* The encodings of the single leaves and of the branches of four leaves.
ReuseBuffers ==
    { encode_v1(Paint(t, seed, 2), << >>, GenericPalette(MaxWidth)).buffer :
        t \in Shapes(1), seed \in 0..MaxSeed }

InitReuse ==
    /\ pc = "start"
    /\ node = DefaultNode
    /\ decoded = DefaultNode
    /\ palette = GenericPalette(MaxWidth)
    /\ image = << >>
    /\ bits = << >>
    /\ sens = 0
    /\ gradient = FALSE
    /\ res = "None"
    /\ ind = 0
    /\ start_ind = 0
    /\ rank = << >>
    /\ hdr = NoHeader
    /\ depth = 0
    /\ before = DefaultNode
    /\ NoFile

\* node.mount(img, palette, s, None, None, g): the first call on the fresh
\* node, or a further call after a successful one.
DoMountOn(img, s, g) ==
    /\ pc \in {"start", "remount"}
    /\ res \in {"None", "Ok"}
    /\ LET r == mount(node, img, palette, s, g)
       IN  /\ node' = r.node
           /\ res' = r.res
    /\ image' = img
    /\ sens' = s
    /\ gradient' = g
    /\ pc' = "remount"
    /\ UNCHANGED <<depth, before, hdr, start_ind, rank, bytes, palette2, canvas,
                   drawGradient, palette, bits, decoded, ind>>

\* decoded.decode_v1(buf, palette, 0): the first call on the fresh node, or
\* a further call after a successful one.
DoDecodeOn(buf) ==
    /\ pc \in {"start", "redecode"}
    /\ res \in {"None", "Ok"}
    /\ LET r == decode_v1(decoded, buf, palette, 0)
       IN  /\ decoded' = r.node
           /\ res' = r.res
           /\ ind' = r.ind
    /\ bits' = buf
    /\ pc' = "redecode"
    /\ UNCHANGED <<depth, before, hdr, start_ind, rank, bytes, palette2, canvas,
                   drawGradient, palette, image, sens, gradient, node>>

NextReuse ==
    \/ \E img \in ReuseGrids, s \in PipeSens, g \in BOOLEAN : DoMountOn(img, s, g)
    \/ \E buf \in ReuseBuffers : DoDecodeOn(buf)

SpecReuse == InitReuse /\ [][NextReuse]_vars

\* C28: after any sequence of successful calls of mount (of decode_v1) on
\* one node, the node holds the tree the last call builds on a fresh
\* default node.
C28_LastCallDecides ==
    /\ (pc = "remount" /\ res = "Ok") =>
          node = mount(DefaultNode, image, palette, sens, gradient).node
    /\ (pc = "redecode" /\ res = "Ok") =>
          decoded = decode_v1(DefaultNode, bits, palette, 0).node

---------------------------------------------------------------------------
(* The order in which generate_palette visits the colours.                 *)

\* The clusters of a ranking, without their order: the member colours, the
\* representative colour and the total of each.
ClusterSet(ranking) ==
    { [members |-> { ranking[k].cat[j].col : j \in 1..Len(ranking[k].cat) },
       col |-> ranking[k].col,
       total |-> ranking[k].total] : k \in 1..Len(ranking) }

\* The thresholds that can have given the ranking held by rank.
ThresholdsOfRun ==
    { t \in DedupThresholds :
        \E order \in IterationOrders(canvas) : generate_palette(canvas, t, order).rank = rank }

\* C29: whatever order the distinct colours are visited in, generate_palette
\* returns, for the image and threshold of the run, the clusters and
\* representative colours it returned in this run.
C29_OrderIndependent ==
    pc = "generate_palette" =>
        \A t \in ThresholdsOfRun : \A order \in IterationOrders(canvas) :
            ClusterSet(generate_palette(canvas, t, order).rank) = ClusterSet(rank)

===========================================================================
